---- MODULE Spec2Model ----
(***************************************************************************)
(* libspiel: the Speaker's utterance queue and playback state machine      *)
(* (libspiel/spiel-speaker.c) together with the Registry it resolves       *)
(* voices and providers from (libspiel/spiel-registry.c).                  *)
(*                                                                         *)
(* The GStreamer pipeline and the session bus are the environment: the     *)
(* pipeline changes state asynchronously and posts messages on its bus,    *)
(* which the main loop later hands to the Speaker's three bus handlers;    *)
(* the bus daemon announces owner changes and answers name listings.       *)
(***************************************************************************)
EXTENDS Integers, Sequences, FiniteSets, TLC

\* ------------------------------------------------------------------ bounds
\* speak() calls that queue an entry
MaxSpeak == 2
\* SpielGoingToSpeak messages a provider source posts over a whole run
MaxEvents == 2
\* NameOwnerChanged / ActivatableServicesChanged signals of the bus daemon
MaxBusSignals == 2
\* speak() calls that queue an entry while the bus daemon's names change
MaxSpeakOnBus == 1
\* speak() calls that queue an entry when no provider source posts an event
MaxSpeakQueue == 3
\* chunks a provider sends through one stream writer
MaxChunks == 3
\* spiel_registry_get calls an application makes
MaxGets == 3

\* --------------------------------------------------------------- universe
PROVIDER_SUFFIX == ".Speech.Provider"

ProviderA == "org.a.Speech.Provider"
ProviderB == "org.b.Speech.Provider"
OtherName == "org.x.Other"
BusNames == {ProviderA, ProviderB, OtherName}

\* g_str_has_suffix (service_name, PROVIDER_SUFFIX) on the names above
g_str_has_suffix(name, suffix) ==
    suffix = PROVIDER_SUFFIX /\ name \in {ProviderA, ProviderB}

NoVoice == "NULL"
NoProvider == "NULL"

\* The voices the providers advertise: provider, name and identifier (the
\* bytes of "a-raw", "a-spiel" and "b-bad"), languages, output format.
VoiceTable ==
    [v \in {"a-raw", "a-spiel", "b-bad"} |->
        CASE v = "a-raw"   -> [provider |-> ProviderA, languages |-> {<<"e", "n">>},
                               name |-> <<97, 45, 114, 97, 119>>, identifier |-> <<97, 45, 114, 97, 119>>,
                               output_format |-> "audio/x-raw"]
          [] v = "a-spiel" -> [provider |-> ProviderA, languages |-> {<<"e", "n">>, <<"h", "y">>},
                               name |-> <<97, 45, 115, 112, 105, 101, 108>>,
                               identifier |-> <<97, 45, 115, 112, 105, 101, 108>>,
                               output_format |-> "audio/x-spiel"]
          [] v = "b-bad"   -> [provider |-> ProviderB, languages |-> {<<"f", "r">>},
                               name |-> <<98, 45, 98, 97, 100>>, identifier |-> <<98, 45, 98, 97, 100>>,
                               output_format |-> "text/plain"]]
AllVoices == DOMAIN VoiceTable

\* SpielVoice objects as g_object_new makes them: the provider (NULL or one
\* of two), name "a" or "b", identifier "a" or "ab", languages none, "en" or
\* "en" and "fr", output format "r" or "s".
VoiceObjects ==
    [provider : {NoProvider, ProviderA, ProviderB},
     name : {<<97>>, <<98>>},
     identifier : {<<97>>, <<97, 98>>},
     languages : {<<>>, <<<<101, 110>>>>, <<<<101, 110>>, <<102, 114>>>>},
     output_format : {<<114>>, <<115>>}]

spiel_voice_get_provider_name(v) == VoiceTable[v].provider
spiel_voice_get_output_format(v) == VoiceTable[v].output_format
spiel_voice_get_languages(v) == VoiceTable[v].languages

\* spiel_provider_get_well_known_name: the bytes of the provider's bus name
spiel_provider_get_well_known_name(provider) ==
    IF provider = ProviderA
    THEN <<111, 114, 103, 46, 97, 46, 83, 112, 101, 101, 99, 104, 46, 80, 114, 111, 118, 105, 100, 101, 114>>
    ELSE <<111, 114, 103, 46, 98, 46, 83, 112, 101, 101, 99, 104, 46, 80, 114, 111, 118, 105, 100, 101, 114>>

\* g_strcmp0 on two strings that are not NULL: the sign of the difference of
\* the first bytes that differ, a string being less than those it begins.
RECURSIVE g_strcmp0(_, _)
g_strcmp0(str1, str2) ==
    IF str1 = <<>> /\ str2 = <<>> THEN 0
    ELSE IF str1 = <<>> THEN 0 - 1
    ELSE IF str2 = <<>> THEN 1
    ELSE IF Head(str1) < Head(str2) THEN 0 - 1
    ELSE IF Head(str1) > Head(str2) THEN 1
    ELSE g_strcmp0(Tail(str1), Tail(str2))

\* A guint is <<low 16 bits, high 16 bits>>.  h * k + x in 32 bits:
\* (h << 5) + h + x is h * 33 + x and (h << 5) - h + x is h * 31 + x.
guint_mul_add(h, k, x) ==
    LET low == h[1] * k + x[1]
    IN <<low % 65536, (h[2] * k + x[2] + low \div 65536) % 65536>>

\* g_str_hash: h = 5381, then h = (h << 5) + h + *p for each byte; the bytes
\* of the model's strings are below 128, where signed char is the byte.
RECURSIVE g_str_hash_from(_, _)
g_str_hash_from(h, v) ==
    IF v = <<>> THEN h
    ELSE g_str_hash_from(guint_mul_add(h, 33, <<Head(v), 0>>), Tail(v))
g_str_hash(v) == g_str_hash_from(<<5381, 0>>, v)

\* a hash that also takes the output format in
spiel_voice_hash_with_output_format(self) ==
    guint_mul_add(g_str_hash(self.name), 31, g_str_hash(self.output_format))

\* spiel_voice_hash: name, identifier, the provider's well-known name when
\* the voice has a provider, then every language
RECURSIVE spiel_voice_hash_languages(_, _)
spiel_voice_hash_languages(hash, languages) ==
    IF languages = <<>> THEN hash
    ELSE spiel_voice_hash_languages(
             guint_mul_add(hash, 31, g_str_hash(Head(languages))), Tail(languages))
spiel_voice_hash(self) ==
    LET hash1 == g_str_hash(self.name)
        hash2 == guint_mul_add(hash1, 31, g_str_hash(self.identifier))
        hash3 == IF self.provider # NoProvider
                 THEN guint_mul_add(hash2, 31,
                          g_str_hash(spiel_provider_get_well_known_name(self.provider)))
                 ELSE hash2
    IN spiel_voice_hash_languages(hash3, self.languages)

\* spiel_voice_equal: the same provider object, name, identifier and
\* languages (g_strv_equal: the same strings in the same order)
spiel_voice_equal(self, other) ==
    /\ self.provider = other.provider
    /\ self.name = other.name
    /\ self.identifier = other.identifier
    /\ self.languages = other.languages

\* spiel_voice_compare: the provider's well-known name ("" without a
\* provider), then the name, then the identifier, each by g_strcmp0.  The
\* result is the sign only.
spiel_voice_compare(self, other) ==
    LET by_provider ==
            g_strcmp0(IF self.provider # NoProvider
                      THEN spiel_provider_get_well_known_name(self.provider)
                      ELSE <<>>,
                      IF other.provider # NoProvider
                      THEN spiel_provider_get_well_known_name(other.provider)
                      ELSE <<>>)
        by_name == g_strcmp0(self.name, other.name)
    IN IF by_provider # 0 THEN by_provider
       ELSE IF by_name # 0 THEN by_name
       ELSE g_strcmp0(self.identifier, other.identifier)

\* The application's utterances: u1 has no voice set, u2 and u3 name one.
Utterances == {"u1", "u2", "u3"}
InitialVoice ==
    [u \in Utterances |->
        CASE u = "u1" -> NoVoice [] u = "u2" -> "a-spiel" [] u = "u3" -> "b-bad"]
\* A language tag is the sequence of its '-'-separated segments; <<>> is NULL.
\* spiel_utterance_get_language: no utterance of the model sets a language.
NoLanguage == <<>>
spiel_utterance_get_language(u) == NoLanguage

\* SpeechProviderEventType values a provider may write
SPEECH_PROVIDER_EVENT_TYPE_NONE == 0
SPEECH_PROVIDER_EVENT_TYPE_WORD == 1
SPEECH_PROVIDER_EVENT_TYPE_SENTENCE == 2
SPEECH_PROVIDER_EVENT_TYPE_RANGE == 3
SPEECH_PROVIDER_EVENT_TYPE_MARK == 4
EventTypes == {SPEECH_PROVIDER_EVENT_TYPE_NONE, SPEECH_PROVIDER_EVENT_TYPE_WORD,
               SPEECH_PROVIDER_EVENT_TYPE_MARK}

\* SpeechProviderChunkType, one byte on the wire
SPEECH_PROVIDER_CHUNK_TYPE_NONE == 0
SPEECH_PROVIDER_CHUNK_TYPE_AUDIO == 1
SPEECH_PROVIDER_CHUNK_TYPE_EVENT == 2

\* A string or buffer is the sequence of its bytes.  "0.01":
SPEECH_PROVIDER_STREAM_PROTOCOL_VERSION == <<48, 46, 48, 49>>
\* sizeof (SpeechProviderStreamHeader)
SizeofStreamHeader == 4
\* What a byte that was never written may hold.
Junk == {0, 85}

\* sizeof (SpeechProviderChunkType), sizeof (guint32) and
\* sizeof (SpeechProviderEventData), which is packed
SizeofChunkType == 1
SizeofGuint32 == 4
SizeofEventData == 13

\* A char * that is NULL; no byte of a string is negative.
NullString == <<0 - 1>>

\* The audio buffers a provider sends: none of the bytes is 0, two are the
\* values of chunk types.
AudioChunks == {<<>>, <<7>>, <<1, 2>>}
\* The events a provider sends: a word with a range, a mark named "m" and a
\* mark named U+00E9, which is two bytes of UTF-8.
EventsSent ==
    {[event_type |-> SPEECH_PROVIDER_EVENT_TYPE_WORD, range_start |-> 0,
      range_end |-> 300, mark_name |-> <<>>],
     [event_type |-> SPEECH_PROVIDER_EVENT_TYPE_MARK, range_start |-> 0,
      range_end |-> 0, mark_name |-> <<109>>],
     [event_type |-> SPEECH_PROVIDER_EVENT_TYPE_MARK, range_start |-> 0,
      range_end |-> 0, mark_name |-> <<195, 169>>]}

\* ------------------------------------------------------------------ state
VARIABLES
    queue,        \* SpielSpeaker.queue: the _QueueEntry list, head first
    paused,       \* SpielSpeaker.paused
    pipeline,     \* the GstPipeline: state, target state, entries in the bin, eos
    bus,          \* messages posted on the pipeline's bus, not yet dispatched
    calls,        \* synthesize calls in flight (_CallSynthData)
    utt_voice,    \* the "voice" property of each utterance
    signals,      \* every signal and speaking notification emitted, in order
    aborted,      \* a g_assert failed: the process is gone
    n_entries,    \* _QueueEntry structures created so far
    n_events,     \* SpielGoingToSpeak messages posted so far
    unvoiced,     \* utterances a speak() call returned on with "No voice available!"
    spoken,       \* the utterance of each _QueueEntry created, by entry id
    dumped,       \* entries cancel() freed from behind the head
    pausing,      \* pause() was called on a queue with entries, resume() not since
    mypipe,       \* entries whose pipe's read end, mypipe[0], is open
    handler,      \* the application's handler of the terminal signals
    rpc_failed,   \* entries whose own synthesize call failed while queued
    providers,    \* SpielRegistryPrivate.providers: the keys of the hash table
    voices,       \* SpielRegistryPrivate.voices: the sorted list store
    cancellable,  \* SpielRegistryPrivate.cancellable (0 is NULL)
    cancelled,    \* the GCancellables that were cancelled
    tasks,        \* update_providers tasks in flight
    owners,       \* bus daemon: names that have an owner
    activatable,  \* bus daemon: names that are activatable
    n_bus_signals,\* bus daemon signals delivered so far
    provider_died,\* names "provider-died" was emitted for
    orphaned,     \* entries that were head when their provider lost its owner
    start_failed, \* entries whose SpielProviderSrc refused to start
    reader,       \* a pipe's read end and the SpeechProviderStreamReader on it
    writer,       \* the SpeechProviderStreamWriter on the pipe's write end
    provider_src, \* the SpielProviderSrc on the reader: where create() is
    sent,         \* what the provider passed to the writer, call by call
    written,      \* every byte the pipe has accepted, in order
    received,     \* what the reader's calls returned with TRUE, call by call
    sRegistry,    \* the static sRegistry: a SpielRegistry object, 0 is NULL
    registries,   \* the SpielRegistry objects created: init phase, ref_count
    gets,         \* the spiel_registry_get calls: task's source object, result
    init_aborted, \* a g_assert of the registry failed: the process is gone
    list_model,   \* a SpielProvidersListModel and the task of its construction
    voices_list_model, \* the SpielVoicesListModel on the list model's providers
    collect,      \* a spiel_collect_providers task and its closure
    compared,     \* two SpielVoices and what hash, equal and compare return
    resolved,     \* a voice resolution: settings, utterance, providers, result
    spiel_provider \* a SpielProvider and its proxy; <<>> before it is made

speaker_vars == <<queue, paused, pipeline, bus, calls, utt_voice, signals,
                  aborted, n_entries, unvoiced, spoken, dumped, pausing, mypipe, handler>>
registry_vars == <<providers, voices, cancellable, cancelled, tasks, owners,
                   activatable, n_bus_signals, provider_died>>
stream_vars == <<start_failed, reader, writer, provider_src, sent, written,
                 received>>
live_vars == <<compared, resolved, spiel_provider>>
init_vars == <<sRegistry, registries, gets, init_aborted, list_model,
               voices_list_model, collect,
               live_vars>>
vars == <<speaker_vars, registry_vars, n_events, orphaned, rpc_failed, stream_vars,
          init_vars>>

\* The speaker's fields as one record, so that a handler and the functions it
\* calls can be written as functions from state to state.
Self ==
    [queue |-> queue, paused |-> paused, pipeline |-> pipeline, bus |-> bus,
     calls |-> calls, utt_voice |-> utt_voice, signals |-> signals,
     aborted |-> aborted, n_entries |-> n_entries, unvoiced |-> unvoiced,
     spoken |-> spoken, dumped |-> dumped, pausing |-> pausing,
     mypipe |-> mypipe, handler |-> handler]

Becomes(s) ==
    /\ queue' = s.queue
    /\ paused' = s.paused
    /\ pipeline' = s.pipeline
    /\ bus' = s.bus
    /\ calls' = s.calls
    /\ utt_voice' = s.utt_voice
    /\ signals' = s.signals
    /\ aborted' = s.aborted
    /\ n_entries' = s.n_entries
    /\ unvoiced' = s.unvoiced
    /\ spoken' = s.spoken
    /\ dumped' = s.dumped
    /\ pausing' = s.pausing
    /\ mypipe' = s.mypipe
    /\ handler' = s.handler

\* ----------------------------------------------------- GLib and GStreamer
\* g_signal_emit of a speaker signal about the entry; error is the GError's
\* code ("none" without one), event the posted message it comes from (0: none);
\* mark_name is the last argument of mark-reached
g_signal_emit(s, signal, entry, error, event) ==
    [s EXCEPT !.signals = Append(@, [signal |-> signal, entry |-> entry.id,
                                     utterance |-> entry.utterance,
                                     error |-> error, event |-> event,
                                     mark_name |-> NullString])]

\* a g_object_notify that reaches no handler
g_object_notify_unheard(s, property) == s

\* g_object_notify (self, "speaking"); "paused" notifications are not logged,
\* the flag itself is state
g_object_notify(s, property) ==
    IF property = "speaking"
    THEN [s EXCEPT !.signals = Append(@, [signal |-> "notify::speaking", entry |-> 0,
                                          utterance |-> "NULL", error |-> "none",
                                          event |-> 0, mark_name |-> NullString])]
    ELSE s

\* g_assert (FALSE)
g_assert_failed(s) == [s EXCEPT !.aborted = TRUE]

\* gst_element_set_state (self->pipeline, state).  Going to NULL is done before
\* the call returns and flushes the bus (GstPipeline:auto-flush-bus); going to
\* PAUSED or PLAYING completes later, see GstStateChanged.
gst_element_set_state(s, state) ==
    IF state = "NULL"
    THEN [s EXCEPT !.pipeline.state = "NULL", !.pipeline.target = "NULL",
                   !.pipeline.eos = FALSE, !.bus = <<>>]
    ELSE [s EXCEPT !.pipeline.target = state]

\* A message on the pipeline's bus.  src is "pipeline" or "src" (the source
\* element of the entry named); name is the structure's name of an element
\* message, event the number of the event it carries.
Message(type, src, entry, new_state, pending, name, event, event_type, strct) ==
    [type |-> type, src |-> src, entry |-> entry, new_state |-> new_state,
     pending |-> pending, name |-> name, event |-> event, event_type |-> event_type,
     strct |-> strct]
StateChanged(src, entry, new_state, pending) ==
    Message("state-changed", src, entry, new_state, pending, "", 0, 0, <<>>)
Eos == Message("eos", "pipeline", 0, "", "", "", 0, 0, <<>>)
\* gst_structure_new ("SpielGoingToSpeak", "event_type", ..., "range_start",
\* ..., "range_end", ..., "mark_name", G_TYPE_STRING, mark_name, NULL): strct
\* is the string fields of the structure by their names
GoingToSpeak(entry, event, event_type, mark_name) ==
    Message("element", "src", entry, "", "", "SpielGoingToSpeak", event, event_type,
            [field \in {"mark_name"} |-> mark_name])

\* gst_bin_add_many (pipeline, entry->src, entry->parse, entry->volume)
gst_bin_add_many(s, entry) == [s EXCEPT !.pipeline.bin = @ \cup {entry.id}]

\* an entry's elements that stay in the pipeline
gst_bin_remove_nothing(s, entry) == s

\* gst_bin_remove_many (pipeline, entry->src, entry->parse, entry->volume)
gst_bin_remove_many(s, entry) == [s EXCEPT !.pipeline.bin = @ \ {entry.id}]


\* -------------------------------------------------- the provider's stream
\* The read end of a pipe and the SpeechProviderStreamReader on it: the bytes
\* written and not yet read, whether the write end is closed, the reader's
\* private fields, whether one of its g_asserts failed, and whether a read()
\* found the pipe empty with the write end open, where the caller sleeps.
Reader(bytes, closed) ==
    [pipe |-> bytes, closed |-> closed, stream_header_received |-> FALSE,
     next_chunk_type |-> SPEECH_PROVIDER_CHUNK_TYPE_NONE, aborted |-> FALSE,
     blocked |-> FALSE]

Min(a, b) == IF a < b THEN a ELSE b

\* read (priv->fd, buf, count) on a blocking pipe: the bytes read, at most
\* count and at most what the pipe holds; none at end of file.  The return
\* value is dropped by every caller.
read(r, count) ==
    IF r.blocked \/ r.aborted \/ count = 0 THEN [r |-> r, data |-> <<>>]
    ELSE IF r.pipe = <<>>
    THEN [r |-> [r EXCEPT !.blocked = ~r.closed], data |-> <<>>]
    ELSE LET n == Min(count, Len(r.pipe))
         IN [r |-> [r EXCEPT !.pipe = SubSeq(@, n + 1, Len(@))],
             data |-> SubSeq(r.pipe, 1, n)]

\* The buffer of that size after a read that stored data at its start: the
\* bytes behind them keep what the buffer held before, junk in each.
Buffer(data, size, junk) == data \o [i \in 1..(size - Len(data)) |-> junk]

\* strncmp (a, b, n) on strings without a NUL among their first n bytes,
\* the sign only
strncmp(a, b, n) == IF SubSeq(a, 1, n) = SubSeq(b, 1, n) THEN 0 ELSE 1

speech_provider_stream_reader_get_stream_header(r, junk) ==
    IF r.stream_header_received THEN [r |-> [r EXCEPT !.aborted = TRUE], ret |-> FALSE]
    ELSE LET got == read(r, SizeofStreamHeader)
             header == Buffer(got.data, SizeofStreamHeader, junk)
         IN [r |-> [got.r EXCEPT !.stream_header_received = TRUE],
             ret |-> strncmp(header, SPEECH_PROVIDER_STREAM_PROTOCOL_VERSION, 4) = 0]

spiel_provider_src_start(r, junk) ==
    speech_provider_stream_reader_get_stream_header(r, junk)

\* A guint32 in memory and on the wire: its four bytes, the least
\* significant first.
guint32_bytes(v) ==
    <<v % 256, (v \div 256) % 256, (v \div 65536) % 256, (v \div 16777216) % 256>>
\* The smaller of the guint32 in those bytes and n, for n below 65536.
guint32_min(b, n) ==
    IF b[3] = 0 /\ b[4] = 0 /\ b[1] + 256 * b[2] <= n THEN b[1] + 256 * b[2] ELSE n

\* g_utf8_skip: the length of the character a byte begins
g_utf8_skip(byte) ==
    IF byte < 192 THEN 1 ELSE IF byte < 224 THEN 2 ELSE IF byte < 240 THEN 3
    ELSE IF byte < 248 THEN 4 ELSE IF byte < 252 THEN 5 ELSE 6

\* g_utf8_strlen (p, -1): the number of characters, not of bytes
RECURSIVE g_utf8_strlen(_)
g_utf8_strlen(p) ==
    IF p = <<>> THEN 0
    ELSE LET skip == Min(g_utf8_skip(Head(p)), Len(p))
         IN 1 + g_utf8_strlen(SubSeq(p, skip + 1, Len(p)))

\* The C string in a buffer: the bytes before the first 0.
RECURSIVE CString(_)
CString(buf) ==
    IF buf = <<>> \/ Head(buf) = 0 THEN <<>> ELSE <<Head(buf)>> \o CString(Tail(buf))

\* write (priv->fd, buf, count) when the pipe accepts at most that many
\* bytes, all of them if accepted is negative: the bytes that reach the pipe.
\* The return value is dropped by every caller.
write(buf, count, accepted) ==
    SubSeq(buf, 1, IF accepted < 0 THEN Min(count, Len(buf))
                   ELSE Min(Min(count, Len(buf)), accepted))

\* Every write() of a writer call is accepted whole.
Whole == [i \in 1..3 |-> 0 - 1]
\* One write() of the call is cut short to no byte or one byte.
Accepted == {Whole} \cup {[Whole EXCEPT ![i] = n] : i \in 1..3, n \in 0..1}

\* The three writer calls: the writer after the call and the bytes that
\* reached the pipe, accepted[i] being what the i-th write() of the call took.
speech_provider_stream_writer_send_stream_header(w, accepted) ==
    IF w.stream_header_sent THEN [w |-> [w EXCEPT !.aborted = TRUE], out |-> <<>>]
    ELSE [w |-> [w EXCEPT !.stream_header_sent = TRUE],
          out |-> write(SPEECH_PROVIDER_STREAM_PROTOCOL_VERSION, SizeofStreamHeader,
                        accepted[1])]

speech_provider_stream_writer_send_audio(w, chunk, chunk_size, accepted) ==
    IF ~w.stream_header_sent THEN [w |-> [w EXCEPT !.aborted = TRUE], out |-> <<>>]
    ELSE [w |-> w,
          out |-> write(<<SPEECH_PROVIDER_CHUNK_TYPE_AUDIO>>, SizeofChunkType,
                        accepted[1])
                  \o write(guint32_bytes(chunk_size), SizeofGuint32, accepted[2])
                  \o write(chunk, chunk_size, accepted[3])]

speech_provider_stream_writer_send_event(w, event_type, range_start, range_end, mark_name, accepted) ==
    IF ~w.stream_header_sent THEN [w |-> [w EXCEPT !.aborted = TRUE], out |-> <<>>]
    ELSE LET mark_name_length == g_utf8_strlen(mark_name)
             event_data == <<event_type % 256>> \o guint32_bytes(range_start)
                           \o guint32_bytes(range_end)
                           \o guint32_bytes(mark_name_length)
         IN [w |-> w,
             out |-> write(<<SPEECH_PROVIDER_CHUNK_TYPE_EVENT>>, SizeofChunkType,
                           accepted[1])
                     \o write(event_data, SizeofEventData, accepted[2])
                     \o (IF mark_name_length # 0
                         THEN write(mark_name, mark_name_length, accepted[3])
                         ELSE <<>>)]

\* a _get_next_chunk_type that keeps no chunk type from one call to the next
_get_next_chunk_type_forgetful(r) ==
    LET got == read([r EXCEPT !.next_chunk_type = SPEECH_PROVIDER_CHUNK_TYPE_NONE],
                    SizeofChunkType)
    IN IF got.data = <<>> THEN got.r
       ELSE [got.r EXCEPT !.next_chunk_type = got.data[1]]

\* _get_next_chunk_type: the reader after the call; its next_chunk_type is
\* the value returned
_get_next_chunk_type(r) ==
    IF r.next_chunk_type = SPEECH_PROVIDER_CHUNK_TYPE_NONE
    THEN LET got == read(r, SizeofChunkType)
         IN IF got.data = <<>> THEN got.r
            ELSE [got.r EXCEPT !.next_chunk_type = got.data[1]]
    ELSE r

\* What a reader call hands back: found is the return value, the guint32s
\* are their bytes, and whole says that the pipe had every byte the call
\* asked it for behind the chunk's type.
NotFound(r) ==
    [r |-> r, found |-> FALSE, kind |-> "none", chunk |-> <<>>,
     chunk_size |-> guint32_bytes(0),
     event_type |-> SPEECH_PROVIDER_EVENT_TYPE_NONE,
     range_start |-> guint32_bytes(0), range_end |-> guint32_bytes(0),
     mark_name |-> NullString, whole |-> TRUE]

\* *chunk_size holds junk in each byte before the call; chunk is the bytes
\* of the buffer that were read from the pipe
speech_provider_stream_reader_get_audio(r, junk) ==
    LET r1 == _get_next_chunk_type(r)
    IN IF r1.blocked THEN NotFound(r1)
       ELSE IF ~r1.stream_header_received THEN NotFound([r1 EXCEPT !.aborted = TRUE])
       ELSE IF r1.next_chunk_type # SPEECH_PROVIDER_CHUNK_TYPE_AUDIO THEN NotFound(r1)
       ELSE LET size == read(r1, SizeofGuint32)
                chunk_size == Buffer(size.data, SizeofGuint32, junk)
                chunk == read(size.r, guint32_min(chunk_size, Len(size.r.pipe)))
            IN [NotFound([chunk.r EXCEPT
                             !.next_chunk_type = SPEECH_PROVIDER_CHUNK_TYPE_NONE])
                   EXCEPT !.found = TRUE, !.kind = "audio", !.chunk = chunk.data,
                          !.chunk_size = chunk_size,
                          !.whole = /\ Len(size.data) = SizeofGuint32
                                    /\ chunk_size = guint32_bytes(Len(chunk.data))]

\* event_data is on the stack and holds junk in each byte before the read
speech_provider_stream_reader_get_event(r, junk) ==
    LET r1 == _get_next_chunk_type(r)
    IN IF r1.blocked THEN NotFound(r1)
       ELSE IF ~r1.stream_header_received THEN NotFound([r1 EXCEPT !.aborted = TRUE])
       ELSE IF r1.next_chunk_type # SPEECH_PROVIDER_CHUNK_TYPE_EVENT THEN NotFound(r1)
       ELSE LET data == read(r1, SizeofEventData)
                event_data == Buffer(data.data, SizeofEventData, junk)
                mark_name_length == SubSeq(event_data, 10, 13)
                name == IF mark_name_length # guint32_bytes(0)
                        THEN read(data.r, guint32_min(mark_name_length,
                                                      Len(data.r.pipe)))
                        ELSE [r |-> data.r, data |-> <<>>]
            IN [NotFound([name.r EXCEPT
                             !.next_chunk_type = SPEECH_PROVIDER_CHUNK_TYPE_NONE])
                   EXCEPT !.found = TRUE, !.kind = "event",
                          !.event_type = event_data[1],
                          !.range_start = SubSeq(event_data, 2, 5),
                          !.range_end = SubSeq(event_data, 6, 9),
                          !.mark_name = IF mark_name_length # guint32_bytes(0)
                                        THEN CString(name.data) ELSE NullString,
                          !.whole = /\ Len(data.data) = SizeofEventData
                                    /\ mark_name_length = guint32_bytes(Len(name.data))]

\* ---------------------------------------------------------------- registry
\* The GSettings keys "default-voice" (m(ss), <<>> is nothing) and
\* "language-voice-mapping" (a{s(ss)}); the schema's defaults.
Settings ==
    [installed |-> TRUE, default_voice |-> <<>>,
     language_voice_mapping |-> [tag \in {} |-> <<>>]]

spiel_registry_get_provider_for_voice(provs, voice) ==
    IF spiel_voice_get_provider_name(voice) \in provs
    THEN spiel_voice_get_provider_name(voice)
    ELSE NoProvider

\* The voice of that provider with that identifier, NoVoice without one.
_get_voice_from_provider_and_name(provs, vs, provider_name, voice_id) ==
    IF provider_name \notin provs THEN NoVoice
    ELSE IF \E i \in 1..Len(vs) :
                vs[i] = voice_id /\ spiel_voice_get_provider_name(vs[i]) = provider_name
         THEN voice_id
         ELSE NoVoice

RECURSIVE LookupLanguageMapping(_, _, _, _)

\* a lookup of the whole tag only
LookupLanguageMapping_of_whole_tag(mapping, _lang, found, boundary) ==
    IF _lang \in DOMAIN mapping THEN mapping[_lang] ELSE <<>>

\* The do-while of spiel_registry_get_voice_for_utterance. _lang is the copy
\* of the tag, a string of one-byte characters; found is the offset in it
\* where the NUL is written (at first its length) and boundary the length
\* g_utf8_strrchr is given (at first -1, the whole string): the offset of
\* the last '-' in the first boundary bytes, NULL (-1 here) without one.
\* The result is the (provider_name, voice_id) looked up, <<>> for none.
LookupLanguageMapping(mapping, _lang, found, boundary) ==
    LET terminated == SubSeq(_lang, 1, found)
        searched == IF boundary < 0 THEN Len(terminated)
                    ELSE IF boundary < Len(terminated) THEN boundary
                    ELSE Len(terminated)
        dashes == {i \in 1..searched : terminated[i] = "-"}
        g_utf8_strrchr == IF dashes = {} THEN -1
                          ELSE (CHOOSE i \in dashes : \A j \in dashes : j <= i) - 1
    IN IF terminated \in DOMAIN mapping THEN mapping[terminated]
       ELSE IF g_utf8_strrchr = -1 THEN <<>>
       ELSE LookupLanguageMapping(mapping, terminated, g_utf8_strrchr,
                                  g_utf8_strrchr - 1)

\* position stays 0 when no voice matches the language, and
\* g_list_model_get_item is NULL past the end of the list
_get_fallback_voice(vs, language) ==
    LET matches == {i \in 1..Len(vs) : language \in spiel_voice_get_languages(vs[i])}
        position == IF language # NoLanguage /\ matches # {}
                    THEN CHOOSE i \in matches : \A j \in matches : i <= j
                    ELSE 1
    IN IF position <= Len(vs) THEN vs[position] ELSE NoVoice

\* priv->settings is NULL when the schema is not installed; utterance_voice
\* is spiel_utterance_get_voice (utterance), language its language
spiel_registry_get_voice_for_utterance(settings, provs, vs, utterance_voice, language) ==
    LET mapped == IF language # NoLanguage /\ settings.installed
                  THEN LookupLanguageMapping(settings.language_voice_mapping, language,
                                             Len(language), -1)
                  ELSE <<>>
        pair == IF mapped = <<>> /\ settings.installed
                THEN settings.default_voice ELSE mapped
        voice == IF pair # <<>>
                 THEN _get_voice_from_provider_and_name(provs, vs, pair[1], pair[2])
                 ELSE NoVoice
    IN IF utterance_voice # NoVoice THEN utterance_voice
       ELSE IF voice # NoVoice THEN voice
       ELSE _get_fallback_voice(vs, language)

\* ----------------------------------------------------------------- speaker
\* gst_structure_get_name (gst_structure_from_string (output_format))
stream_type(output_format) == output_format

\* a speak() that makes a source element whatever the stream type is
any_stream_type_has_src(type) == TRUE

\* spiel_speaker_speak: entry->src is made for these two stream types only
stream_type_has_src(type) == type \in {"audio/x-raw", "audio/x-spiel"}

\* _queue_entry_destroy: the descriptor is read from entry->src ("fd") and
\* closed if there is a source element; the pipe's descriptors are positive
_queue_entry_destroy(s, entry) ==
    IF entry.src THEN [s EXCEPT !.mypipe = @ \ {entry.id}] ELSE s

RECURSIVE _speak_current_entry(_)
RECURSIVE _advance_to_next_entry_or_finish(_, _)
RECURSIVE spiel_speaker_cancel(_)
RECURSIVE spiel_speaker_speak(_, _, _, _)

\* a _speak_current_entry that does not look at self->paused
_speak_current_entry_though_paused(s) ==
    LET entry == Head(s.queue)
    IN IF entry.error # "none"
       THEN IF entry.src
            THEN g_assert_failed(s)
            ELSE _advance_to_next_entry_or_finish(s, FALSE)
       ELSE gst_element_set_state(gst_bin_add_many(s, entry), "PLAYING")

_speak_current_entry(s) ==
    LET entry == Head(s.queue)
    IN IF entry.error # "none"
       THEN IF entry.src
            THEN g_assert_failed(s)
            ELSE _advance_to_next_entry_or_finish(s, FALSE)
       ELSE LET s1 == gst_bin_add_many(s, entry)
            IN IF ~s1.paused THEN gst_element_set_state(s1, "PLAYING") ELSE s1

\* an advance that has no signal for an entry with an error
_advance_without_error_signal(s, canceled) ==
    LET entry == Head(s.queue)
        s1 == gst_element_set_state(s, "NULL")
        s2 == IF entry.error # "none"
              THEN s1
              ELSE g_signal_emit(s1, IF canceled THEN "utterance-canceled"
                                     ELSE "utterance-finished", entry, "none", 0)
        s3 == IF entry.src THEN gst_bin_remove_many(s2, entry) ELSE s2
        s4 == [_queue_entry_destroy(s3, entry) EXCEPT !.queue = Tail(@)]
    IN IF s4.queue # <<>>
       THEN _speak_current_entry(s4)
       ELSE g_object_notify(s4, "speaking")

\* an advance that starts the next entry before it finalizes the current one
_advance_speaking_next_first(s, canceled) ==
    LET entry == Head(s.queue)
        s1 == gst_element_set_state(s, "NULL")
        s2 == IF entry.src THEN gst_bin_remove_many(s1, entry) ELSE s1
        s3 == IF Len(s2.queue) > 1
              THEN g_signal_emit([s2 EXCEPT !.queue[2].started = TRUE],
                                 "utterance-started", s2.queue[2], "none", 0)
              ELSE s2
        s4 == IF entry.error # "none"
              THEN g_signal_emit(s3, "utterance-error", entry, entry.error, 0)
              ELSE g_signal_emit(s3, IF canceled THEN "utterance-canceled"
                                     ELSE "utterance-finished", entry, "none", 0)
        s5 == [_queue_entry_destroy(s4, entry) EXCEPT !.queue = Tail(@)]
    IN IF s5.queue # <<>>
       THEN _speak_current_entry(s5)
       ELSE g_object_notify(s5, "speaking")

\* The signals are G_SIGNAL_RUN_FIRST with no class handler: g_signal_emit
\* runs the application's handler before it returns, the entry still at the
\* head of the queue.  The handler here calls cancel() or speak() once.  When
\* it has destroyed the entry, the reads of entry->src and what follows are
\* of freed memory: the process ends there, or goes on with what the memory
\* still holds (g_slist_delete_link of an empty list is the empty list).
_advance_to_next_entry_or_finish(s, canceled) ==
    LET entry == Head(s.queue)
        emit(s1) ==
            IF entry.error # "none"
            THEN g_signal_emit(s1, "utterance-error", entry, entry.error, 0)
            ELSE g_signal_emit(s1, IF canceled THEN "utterance-canceled"
                                   ELSE "utterance-finished", entry, "none", 0)
        calling(emitted) ==
            [emitted EXCEPT !.handler.does = "nothing", !.handler.called = TRUE]
        handle(emitted) ==
            CASE emitted.handler.does = "cancel" ->
                     spiel_speaker_cancel(calling(emitted))
              [] emitted.handler.does = "speak" /\ emitted.n_entries < MaxSpeak ->
                     spiel_speaker_speak(calling(emitted), providers, voices, "u1")
              [] OTHER -> emitted
        freed(s2) == s2.queue = <<>> \/ Head(s2.queue).id # entry.id
        unlink(s3, gone) ==
            [_queue_entry_destroy(s3, entry)
                EXCEPT !.queue = IF @ = <<>> THEN @ ELSE Tail(@),
                       !.handler.freed_entry_accessed = @ \/ gone]
        next(s4) ==
            IF s4.queue # <<>>
            THEN _speak_current_entry(s4)
            ELSE g_object_notify(s4, "speaking")
        finish(s2) ==
            IF freed(s2) /\ ~s2.handler.survives
            THEN [s2 EXCEPT !.aborted = TRUE, !.handler.freed_entry_accessed = TRUE]
            ELSE next(unlink(IF entry.src THEN gst_bin_remove_many(s2, entry)
                             ELSE s2, freed(s2)))
    IN finish(handle(emit(gst_element_set_state(s, "NULL"))))

spiel_speaker_speak(s, provs, vs, utterance) ==
    LET voice == IF s.utt_voice[utterance] = NoVoice
                 THEN spiel_registry_get_voice_for_utterance(
                          Settings, provs, vs, s.utt_voice[utterance],
                          spiel_utterance_get_language(utterance))
                 ELSE s.utt_voice[utterance]
    IN IF voice = NoVoice
       THEN [s EXCEPT !.unvoiced = @ \cup {utterance}]
       ELSE
         LET id == s.n_entries + 1
             provider == spiel_registry_get_provider_for_voice(provs, voice)
             type == stream_type(spiel_voice_get_output_format(voice))
             has_src == stream_type_has_src(type)
             entry == [id |-> id, utterance |-> utterance, src |-> has_src,
                       stream_type |-> type,
                       error |-> IF has_src THEN "none" ELSE "MISCONFIGURED_VOICE",
                       started |-> FALSE, deferred_messages |-> <<>>]
             start(s1) == IF Len(s1.queue) = 1
                          THEN _speak_current_entry(g_object_notify(s1, "speaking"))
                          ELSE s1
         IN start([s EXCEPT !.utt_voice[utterance] = voice, !.n_entries = id,
                            !.spoken = Append(@, utterance),
                            !.mypipe = @ \cup {id},
                            !.calls = IF provider = NoProvider THEN @
                                      ELSE @ \cup {[entry |-> id,
                                                    utterance |-> utterance]},
                            !.queue = Append(@, entry)])

\* spiel_speaker_get_property for "speaking" and "paused"
spiel_speaker_get_property(s, property) ==
    CASE property = "speaking" -> s.queue # <<>>
      [] property = "paused" -> s.paused

spiel_speaker_pause(s) ==
    IF s.paused THEN s
    ELSE IF s.queue = <<>> THEN g_object_notify([s EXCEPT !.paused = TRUE], "paused")
    ELSE gst_element_set_state(s, "PAUSED")

spiel_speaker_resume(s) ==
    IF ~s.paused THEN s
    ELSE IF s.queue = <<>> THEN g_object_notify([s EXCEPT !.paused = FALSE], "paused")
    ELSE gst_element_set_state(s, "PLAYING")

\* g_slist_free_full (g_steal_pointer (&self->queue->next), _queue_entry_destroy)
RECURSIVE g_slist_free_full(_)
g_slist_free_full(s) ==
    IF Len(s.queue) <= 1 THEN s
    ELSE LET entry == s.queue[2]
         IN g_slist_free_full(
                [_queue_entry_destroy(s, entry)
                    EXCEPT !.queue = <<Head(@)>> \o SubSeq(@, 3, Len(@)),
                           !.dumped = @ \cup {entry.id}])

\* cancel() that leaves the entries behind the head in the queue
spiel_speaker_cancel_head_only(s) ==
    IF s.queue = <<>> THEN s
    ELSE _advance_to_next_entry_or_finish(s, TRUE)

spiel_speaker_cancel(s) ==
    IF s.queue = <<>> THEN s
    ELSE _advance_to_next_entry_or_finish(g_slist_free_full(s), TRUE)

\* mark_name = gst_structure_get_string (strct, "name"): NULL when the
\* structure has no field of that name
_process_going_to_speak_message(s, msg) ==
    LET entry == Head(s.queue)
        mark_name == IF "name" \in DOMAIN msg.strct THEN msg.strct["name"]
                     ELSE NullString
    IN CASE msg.event_type = SPEECH_PROVIDER_EVENT_TYPE_WORD ->
              g_signal_emit(s, "word-started", entry, "none", msg.event)
         [] msg.event_type = SPEECH_PROVIDER_EVENT_TYPE_SENTENCE ->
              g_signal_emit(s, "sentence-started", entry, "none", msg.event)
         [] msg.event_type = SPEECH_PROVIDER_EVENT_TYPE_RANGE ->
              g_signal_emit(s, "range-started", entry, "none", msg.event)
         [] msg.event_type = SPEECH_PROVIDER_EVENT_TYPE_MARK ->
              LET emitted == g_signal_emit(s, "mark-reached", entry, "none", msg.event)
              IN [emitted EXCEPT !.signals[Len(emitted.signals)].mark_name = mark_name]
         [] OTHER -> s

\* g_slist_foreach (entry->deferred_messages, _process_going_to_speak_message)
RECURSIVE g_slist_foreach(_, _)
g_slist_foreach(s, messages) ==
    IF messages = <<>> THEN s
    ELSE g_slist_foreach(_process_going_to_speak_message(s, Head(messages)),
                         Tail(messages))

\* msg is a state-changed message: new_state, pending_state and its source,
\* "pipeline" or the id of the entry whose src element posted it
_handle_gst_state_change(s, msg) ==
    LET final == msg.pending = "VOID_PENDING"
        s1 == IF msg.new_state = "PLAYING" /\ final /\ msg.src = "pipeline"
              THEN LET a == IF s.paused
                            THEN g_object_notify([s EXCEPT !.paused = FALSE], "paused")
                            ELSE s
                   IN IF a.queue # <<>> /\ ~Head(a.queue).started
                      THEN LET b == [a EXCEPT !.queue[1].started = TRUE]
                               c == g_signal_emit(b, "utterance-started", Head(b.queue),
                                                  "none", 0)
                               d == g_slist_foreach(c, Head(c.queue).deferred_messages)
                           IN [d EXCEPT !.queue[1].deferred_messages = <<>>]
                      ELSE a
              ELSE s
        s2 == IF msg.new_state = "PAUSED" /\ final /\ msg.src = "pipeline"
              THEN g_object_notify([s1 EXCEPT !.paused = TRUE], "paused")
              ELSE s1
    IN IF /\ msg.new_state = "NULL" /\ final /\ s2.queue # <<>>
          /\ Head(s2.queue).src /\ msg.src = "src" /\ msg.entry = Head(s2.queue).id
       THEN _advance_to_next_entry_or_finish(s2, FALSE)
       ELSE s2

\* gst_element_set_state (entry->src, GST_STATE_NULL): the element posts its
\* own state-changed message on the pipeline's bus
_handle_gst_eos(s, msg) ==
    IF s.queue = <<>> THEN s
    ELSE [s EXCEPT !.bus = Append(@, StateChanged("src", Head(s.queue).id, "NULL",
                                                  "VOID_PENDING"))]

\* an element message handler that never holds an event back
_handle_gst_element_message_at_once(s, msg) ==
    IF s.queue = <<>> THEN s
    ELSE IF msg.name # "SpielGoingToSpeak" THEN s
    ELSE _process_going_to_speak_message(s, msg)

_handle_gst_element_message(s, msg) ==
    IF s.queue = <<>> THEN s
    ELSE IF msg.name # "SpielGoingToSpeak" THEN s
    ELSE IF Head(s.queue).started THEN _process_going_to_speak_message(s, msg)
    ELSE [s EXCEPT !.queue[1].deferred_messages = Append(@, msg)]

\* The index of the first queue entry holding that utterance, 0 without one.
FindEntry(q, utterance) ==
    LET hits == {i \in 1..Len(q) : q[i].utterance = utterance}
    IN IF hits = {} THEN 0 ELSE CHOOSE i \in hits : \A j \in hits : i <= j

_provider_call_synthesize_done(s, call, err) ==
    LET s0 == [s EXCEPT !.calls = @ \ {call}]
        item == FindEntry(s0.queue, call.utterance)
    IN IF ~err \/ item = 0 THEN s0
       ELSE IF s0.queue[item].error # "none" THEN g_assert_failed(s0)
       ELSE LET s1 == [s0 EXCEPT !.queue[item].error = "G_DBUS_ERROR"]
            IN IF item = 1 THEN _advance_to_next_entry_or_finish(s1, FALSE) ELSE s1


\* ----------------------------------------------------------- speaker actions
Running == ~aborted

Speak(utterance, limit) ==
    /\ Running
    /\ n_entries < limit
    /\ Becomes(spiel_speaker_speak(Self, providers, voices, utterance))
    /\ UNCHANGED <<init_vars, stream_vars, registry_vars, n_events, orphaned, rpc_failed>>

Pause ==
    /\ Running
    /\ Becomes([spiel_speaker_pause(Self) EXCEPT !.pausing = @ \/ queue # <<>>])
    /\ UNCHANGED <<init_vars, stream_vars, registry_vars, n_events, orphaned, rpc_failed>>

Resume ==
    /\ Running
    /\ Becomes([spiel_speaker_resume(Self) EXCEPT !.pausing = FALSE])
    /\ UNCHANGED <<init_vars, stream_vars, registry_vars, n_events, orphaned, rpc_failed>>

Cancel ==
    /\ Running
    /\ Becomes(spiel_speaker_cancel(Self))
    /\ UNCHANGED <<init_vars, stream_vars, registry_vars, n_events, orphaned, rpc_failed>>

\* The main loop hands the oldest bus message to the handler connected for
\* its type ("message::state-changed", "message::eos", "message::element").
\* The application connects a handler to the three terminal signals that
\* calls cancel() or speak() on the speaker, the first time it runs.
ConnectHandler(does, survives) ==
    /\ Running
    /\ handler.does = "nothing" /\ ~handler.called
    /\ Becomes([Self EXCEPT !.handler.does = does, !.handler.survives = survives])
    /\ UNCHANGED <<init_vars, stream_vars, registry_vars, n_events, orphaned, rpc_failed>>

Popped == [Self EXCEPT !.bus = Tail(@)]

HandleGstStateChange ==
    /\ Running
    /\ bus # <<>> /\ Head(bus).type = "state-changed"
    /\ Becomes(_handle_gst_state_change(Popped, Head(bus)))
    /\ UNCHANGED <<init_vars, stream_vars, registry_vars, n_events, orphaned, rpc_failed>>

HandleGstEos ==
    /\ Running
    /\ bus # <<>> /\ Head(bus).type = "eos"
    /\ Becomes(_handle_gst_eos(Popped, Head(bus)))
    /\ UNCHANGED <<init_vars, stream_vars, registry_vars, n_events, orphaned, rpc_failed>>

HandleGstElementMessage ==
    /\ Running
    /\ bus # <<>> /\ Head(bus).type = "element"
    /\ Becomes(_handle_gst_element_message(Popped, Head(bus)))
    /\ UNCHANGED <<init_vars, stream_vars, registry_vars, n_events, orphaned, rpc_failed>>

\* The reply of a Synthesize call arrives, with or without an error.
ProviderCallSynthesizeDone(call, err) ==
    /\ Running
    /\ call \in calls
    /\ Becomes(_provider_call_synthesize_done(Self, call, err))
    /\ rpc_failed' = IF err /\ \E i \in 1..Len(queue) : queue[i].id = call.entry
                     THEN rpc_failed \cup {call.entry} ELSE rpc_failed
    /\ UNCHANGED <<init_vars, stream_vars, registry_vars, n_events, orphaned>>

\* ------------------------------------------------------ GStreamer, as used
\* The pipeline completes the state change it was asked for and posts its
\* state-changed messages: on the way from NULL to PLAYING one for PAUSED
\* with PLAYING still pending, then the final one.
GstStateChanged ==
    /\ Running
    /\ pipeline.target # pipeline.state
    /\ pipeline.state # "READY"
    /\ pipeline.bin # {}
    /\ bus' = bus \o
         (IF pipeline.state = "NULL" /\ pipeline.target = "PLAYING"
          THEN <<StateChanged("pipeline", 0, "PAUSED", "PLAYING")>> ELSE <<>>)
         \o <<StateChanged("pipeline", 0, pipeline.target, "VOID_PENDING")>>
    /\ pipeline' = [pipeline EXCEPT !.state = pipeline.target]
    /\ UNCHANGED <<init_vars, stream_vars, queue, paused, calls, utt_voice, signals, aborted, n_entries,
                   unvoiced, spoken, dumped, pausing, mypipe, handler, registry_vars, n_events, orphaned,
                   rpc_failed>>

\* The sink has played the stream to its end: the pipeline, in PLAYING with
\* that state change announced, posts end-of-stream once.
GstEos ==
    /\ Running
    /\ pipeline.state = "PLAYING" /\ pipeline.target = "PLAYING"
    /\ pipeline.bin # {} /\ ~pipeline.eos
    /\ bus' = Append(bus, Eos)
    /\ pipeline' = [pipeline EXCEPT !.eos = TRUE]
    /\ UNCHANGED <<init_vars, stream_vars, queue, paused, calls, utt_voice, signals, aborted, n_entries,
                   unvoiced, spoken, dumped, pausing, mypipe, handler, registry_vars, n_events, orphaned,
                   rpc_failed>>

\* spiel_provider_src_create posts an event of the audio/x-spiel stream as a
\* SpielGoingToSpeak element message; the source runs once the pipeline was
\* asked to leave NULL.  The marks of the stream are named "m".
ProviderSrcEvent(event_type) ==
    /\ Running
    /\ n_events < MaxEvents
    /\ pipeline.bin # {} /\ pipeline.target # "NULL" /\ ~pipeline.eos
    /\ n_events' = n_events + 1
    /\ \E i \in 1..Len(queue) :
          /\ queue[i].id \in pipeline.bin /\ queue[i].stream_type = "audio/x-spiel"
          /\ bus' = Append(bus, GoingToSpeak(queue[i].id, n_events + 1, event_type,
                                  IF event_type = SPEECH_PROVIDER_EVENT_TYPE_MARK
                                  THEN <<109>> ELSE NullString))
    /\ UNCHANGED <<init_vars, stream_vars, queue, paused, pipeline, calls, utt_voice, signals, aborted,
                   n_entries, unvoiced, spoken, dumped, pausing, mypipe, handler, registry_vars, orphaned,
                   rpc_failed>>

\* The pipeline leaves NULL with the SpielProviderSrc of an audio/x-spiel
\* entry in it: GstBaseSrc calls spiel_provider_src_start, the provider having
\* written those four bytes.  If it returns TRUE the state change goes on as
\* in GstStateChanged; if not the state change fails, the element posts an
\* error message and the pipeline rests in READY.
ProviderSrcStart(version) ==
    /\ Running
    /\ pipeline.state = "NULL" /\ pipeline.target # "NULL"
    /\ pipeline.bin # {}
    /\ \E i \in 1..Len(queue) :
          /\ queue[i].id \in pipeline.bin /\ queue[i].stream_type = "audio/x-spiel"
          /\ LET started == spiel_provider_src_start(Reader(version, FALSE), 0)
             IN IF started.ret
                THEN /\ bus' = bus \o
                          (IF pipeline.target = "PLAYING"
                           THEN <<StateChanged("pipeline", 0, "PAUSED", "PLAYING")>>
                           ELSE <<>>)
                          \o <<StateChanged("pipeline", 0, pipeline.target,
                                            "VOID_PENDING")>>
                     /\ pipeline' = [pipeline EXCEPT !.state = pipeline.target]
                     /\ UNCHANGED start_failed
                ELSE \* GST_ELEMENT_ERROR of the entry's source element
                     /\ bus' = Append(bus, Message("error", "src", queue[i].id,
                                                   "", "", "", 0, 0, <<>>))
                     /\ pipeline' = [pipeline EXCEPT !.state = "READY",
                                                     !.target = "READY"]
                     /\ start_failed' = start_failed \cup {queue[i].id}
    /\ UNCHANGED <<queue, paused, calls, utt_voice, signals, aborted, n_entries,
                   unvoiced, spoken, dumped, pausing, mypipe, handler, registry_vars, n_events, orphaned,
                   rpc_failed, reader, writer, provider_src, sent, written,
                   received, init_vars>>

\* The speaker asks the pipeline whose source failed to start for PAUSED or
\* PLAYING again: spiel_provider_src_start is called a second time, on a
\* reader that has taken its header.
ProviderSrcStartAgain ==
    /\ Running
    /\ pipeline.state = "READY" /\ pipeline.target \notin {"READY", "NULL"}
    /\ pipeline.bin # {}
    /\ LET r == [Reader(<<>>, FALSE) EXCEPT !.stream_header_received = TRUE]
       IN aborted' = spiel_provider_src_start(r, 0).r.aborted
    /\ UNCHANGED <<queue, paused, pipeline, bus, calls, utt_voice, signals,
                   n_entries, unvoiced, spoken, dumped, pausing, mypipe, handler, registry_vars, n_events,
                   orphaned, rpc_failed, stream_vars, init_vars>>

\* The main loop dispatches a message of a type no handler is connected for
\* ("message::error" among them): the message is dropped.
UnhandledGstMessage ==
    /\ Running
    /\ bus # <<>> /\ Head(bus).type \notin {"state-changed", "eos", "element"}
    /\ Becomes(Popped)
    /\ UNCHANGED <<init_vars, stream_vars, registry_vars, n_events, orphaned, rpc_failed>>

\* ------------------------------------------- the provider's stream, actions
program_vars == <<speaker_vars, registry_vars, n_events, orphaned, rpc_failed,
                  start_failed, init_vars>>

\* What a writer call was given and what a reader call handed back, in one
\* shape: the chunk's kind and the out parameters.
Returned(res) ==
    [kind |-> res.kind, chunk |-> res.chunk, chunk_size |-> res.chunk_size,
     event_type |-> res.event_type, range_start |-> res.range_start,
     range_end |-> res.range_end, mark_name |-> res.mark_name,
     whole |-> res.whole]

\* The provider's process: a writer call whose write()s the pipe accepts as
\* told.  A failed g_assert ends the process, which closes the write end.
Wrote(res) ==
    /\ writer' = res.w
    /\ reader' = [reader EXCEPT !.pipe = @ \o res.out, !.closed = res.w.aborted]
    /\ written' = written \o res.out

SendStreamHeader(accepted) ==
    /\ ~writer.aborted /\ ~reader.closed
    /\ Wrote(speech_provider_stream_writer_send_stream_header(writer, accepted))
    /\ UNCHANGED <<sent, received, provider_src, program_vars>>

SendAudio(chunk, accepted) ==
    /\ ~writer.aborted /\ ~reader.closed
    /\ Len(sent) < MaxChunks
    /\ Wrote(speech_provider_stream_writer_send_audio(writer, chunk, Len(chunk),
                                                      accepted))
    /\ sent' = IF writer.stream_header_sent
               THEN Append(sent,
                        [kind |-> "audio", chunk |-> chunk,
                         chunk_size |-> guint32_bytes(Len(chunk)),
                         event_type |-> SPEECH_PROVIDER_EVENT_TYPE_NONE,
                         range_start |-> guint32_bytes(0),
                         range_end |-> guint32_bytes(0),
                         mark_name |-> NullString])
               ELSE sent
    /\ UNCHANGED <<received, provider_src, program_vars>>

SendEvent(e, accepted) ==
    /\ ~writer.aborted /\ ~reader.closed
    /\ Len(sent) < MaxChunks
    /\ Wrote(speech_provider_stream_writer_send_event(
                 writer, e.event_type, e.range_start, e.range_end, e.mark_name,
                 accepted))
    /\ sent' = IF writer.stream_header_sent
               THEN Append(sent,
                        [kind |-> "event", chunk |-> <<>>,
                         chunk_size |-> guint32_bytes(0),
                         event_type |-> e.event_type,
                         range_start |-> guint32_bytes(e.range_start),
                         range_end |-> guint32_bytes(e.range_end),
                         mark_name |-> e.mark_name])
               ELSE sent
    /\ UNCHANGED <<received, provider_src, program_vars>>

\* speech_provider_stream_writer_close
WriterClose ==
    /\ ~writer.aborted /\ ~reader.closed
    /\ reader' = [reader EXCEPT !.closed = TRUE]
    /\ UNCHANGED <<writer, sent, written, received, provider_src, program_vars>>

\* The reader's process.  A call that finds the pipe empty and the write end
\* open sleeps in read(): it is taken when it can return.
\* spiel_provider_src_start: the header is read and checked once.
SrcStart(junk) ==
    /\ ~reader.aborted /\ provider_src.pc = "stopped"
    /\ LET res == spiel_provider_src_start(reader, junk)
       IN /\ ~res.r.blocked
          /\ reader' = res.r
          /\ provider_src' = [provider_src EXCEPT !.pc = "event", !.started = res.ret]
    /\ UNCHANGED <<writer, sent, written, received, program_vars>>

\* A client calls the reader as it likes; it goes on to the chunks only
\* behind a header that matched.
GetAudio(junk) ==
    /\ ~reader.aborted
    /\ reader.stream_header_received => provider_src.started
    /\ LET res == speech_provider_stream_reader_get_audio(reader, junk)
       IN /\ ~res.r.blocked
          /\ reader' = res.r
          /\ received' = IF res.found THEN Append(received, Returned(res))
                         ELSE received
    /\ UNCHANGED <<writer, sent, written, provider_src, program_vars>>

GetEvent(junk) ==
    /\ ~reader.aborted
    /\ reader.stream_header_received => provider_src.started
    /\ LET res == speech_provider_stream_reader_get_event(reader, junk)
       IN /\ ~res.r.blocked
          /\ reader' = res.r
          /\ received' = IF res.found THEN Append(received, Returned(res))
                         ELSE received
    /\ UNCHANGED <<writer, sent, written, provider_src, program_vars>>

\* spiel_provider_src_create, the first half of the loop's body: get_event,
\* and the SpielGoingToSpeak message if there is an event
SrcCreateGetEvent(junk) ==
    /\ ~reader.aborted
    /\ provider_src.started /\ provider_src.pc = "event"
    /\ provider_src.flow # "GST_FLOW_EOS"
    /\ LET res == speech_provider_stream_reader_get_event(reader, junk)
       IN /\ ~res.r.blocked
          /\ reader' = res.r
          /\ received' = IF res.found THEN Append(received, Returned(res))
                         ELSE received
          /\ provider_src' = [provider_src EXCEPT !.pc = "audio",
                                                  !.got_event = res.found]
    /\ UNCHANGED <<writer, sent, written, program_vars>>

\* a second half that returns end-of-stream whenever get_audio found nothing
SrcCreateGetAudio_eos_without_audio ==
    /\ ~reader.aborted
    /\ provider_src.started /\ provider_src.pc = "audio"
    /\ LET res == speech_provider_stream_reader_get_audio(reader, 0)
           got_audio == res.found
       IN /\ ~res.r.blocked
          /\ reader' = res.r
          /\ received' = IF got_audio /\ res.chunk_size # guint32_bytes(0)
                         THEN Append(received, Returned(res)) ELSE received
          /\ provider_src' =
                [provider_src EXCEPT
                    !.pc = "event",
                    !.flow = IF got_audio /\ res.chunk_size # guint32_bytes(0)
                             THEN "GST_FLOW_OK"
                             ELSE IF ~got_audio THEN "GST_FLOW_EOS" ELSE @]
    /\ UNCHANGED <<writer, sent, written, program_vars>>

\* the second half: get_audio, chunk_size being 0 before, then the buffer is
\* returned, or end-of-stream, or the loop goes round
SrcCreateGetAudio ==
    /\ ~reader.aborted
    /\ provider_src.started /\ provider_src.pc = "audio"
    /\ LET res == speech_provider_stream_reader_get_audio(reader, 0)
           got_audio == res.found
       IN /\ ~res.r.blocked
          /\ reader' = res.r
          /\ received' = IF got_audio /\ res.chunk_size # guint32_bytes(0)
                         THEN Append(received, Returned(res)) ELSE received
          /\ provider_src' =
                [provider_src EXCEPT
                    !.pc = "event",
                    !.flow = IF got_audio /\ res.chunk_size # guint32_bytes(0)
                             THEN "GST_FLOW_OK"
                             ELSE IF ~got_audio /\ ~provider_src.got_event
                             THEN "GST_FLOW_EOS" ELSE @]
    /\ UNCHANGED <<writer, sent, written, program_vars>>

\* --------------------------------------------------------- registry actions
ProviderVoices(name) == {v \in AllVoices : spiel_voice_get_provider_name(v) = name}

\* g_list_store_insert_sorted (priv->voices, voice, spiel_voice_compare)
g_list_store_insert_sorted(vs, v) ==
    LET before == SelectSeq(vs, LAMBDA w :
                      spiel_voice_compare(VoiceTable[w], VoiceTable[v]) <= 0)
        after == SelectSeq(vs, LAMBDA w :
                     spiel_voice_compare(VoiceTable[w], VoiceTable[v]) > 0)
    IN before \o <<v>> \o after

RECURSIVE InsertAll(_, _)
InsertAll(vs, new) ==
    IF new = {} THEN vs
    ELSE LET v == CHOOSE w \in new : TRUE
         IN InsertAll(g_list_store_insert_sorted(vs, v), new \ {v})

\* The registry's providers and voices after _add_provider_with_voices for the
\* provider of that name advertising those voices.
_add_provider_with_voices(reg, name, advertised) ==
    LET new_provider == name \notin reg.providers
        voices_hashset == {v \in AllVoices :
                             /\ spiel_voice_get_provider_name(v) = name
                             /\ \E i \in 1..Len(reg.voices) : reg.voices[i] = v}
        added == IF new_provider THEN advertised ELSE advertised \ voices_hashset
        kept == SelectSeq(reg.voices,
                          LAMBDA v : new_provider \/ v \notin voices_hashset
                                        \/ v \in advertised)
    IN [providers |-> reg.providers \cup {name}, voices |-> InsertAll(kept, added)]

\* The names of a ListNames / ListActivatableNames reply, in the daemon's order.
RECURSIVE ReplyOf(_)
ReplyOf(names) ==
    IF names = {} THEN <<>>
    ELSE LET n == CHOOSE m \in names : TRUE IN <<n>> \o ReplyOf(names \ {n})

\* _collect_provider_names: each name with the suffix is prepended
RECURSIVE _collect_provider_names(_, _)
_collect_provider_names(provider_names, reply) ==
    IF reply = <<>> THEN provider_names
    ELSE _collect_provider_names(
             IF g_str_has_suffix(Head(reply), PROVIDER_SUFFIX)
             THEN <<Head(reply)>> \o provider_names ELSE provider_names,
             Tail(reply))

\* _update_next_provider skips the names the registry has a provider for: what
\* is left of provider_names when it returns, <<>> when the task is complete.
RECURSIVE _update_next_provider(_, _)
_update_next_provider(provs, provider_names) ==
    IF provider_names = <<>> THEN <<>>
    ELSE IF Head(provider_names) \in provs
    THEN _update_next_provider(provs, Tail(provider_names))
    ELSE provider_names

update_providers(ts, id, c) ==
    ts \cup {[id |-> id, phase |-> "ListActivatableNames", provider_names |-> <<>>,
              cancellable |-> c]}

\* _maybe_running_providers_changed for NameOwnerChanged (service_name, _,
\* new_owner); lost says that new_owner is "".
NameOwnerChanged(service_name, lost) ==
    /\ Running
    /\ n_bus_signals < MaxBusSignals
    /\ service_name \in BusNames
    /\ IF lost THEN service_name \in owners ELSE service_name \notin owners
    /\ owners' = IF lost THEN owners \ {service_name} ELSE owners \cup {service_name}
    /\ n_bus_signals' = n_bus_signals + 1
    /\ IF g_str_has_suffix(service_name, PROVIDER_SUFFIX)
       THEN /\ provider_died' = IF lost THEN provider_died \cup {service_name}
                                ELSE provider_died
            /\ cancelled' = IF lost /\ cancellable # 0
                            THEN cancelled \cup {cancellable} ELSE cancelled
            /\ cancellable' = n_bus_signals + 1
            /\ tasks' = IF lost \/ service_name \notin providers
                        THEN update_providers(tasks, n_bus_signals + 1,
                                              n_bus_signals + 1)
                        ELSE tasks
       ELSE UNCHANGED <<provider_died, cancelled, cancellable, tasks>>
    /\ orphaned' = IF /\ lost /\ queue # <<>> /\ service_name \notin activatable
                      /\ utt_voice[Head(queue).utterance] # NoVoice
                      /\ spiel_voice_get_provider_name(
                             utt_voice[Head(queue).utterance]) = service_name
                   THEN orphaned \cup {Head(queue).id} ELSE orphaned
    /\ UNCHANGED <<init_vars, stream_vars, speaker_vars, n_events, rpc_failed, providers, voices,
                   activatable>>

\* _maybe_activatable_providers_changed: the set of activatable services of
\* the daemon changed by that name.
ActivatableServicesChanged(service_name) ==
    /\ Running
    /\ n_bus_signals < MaxBusSignals
    /\ service_name = ProviderB
    /\ activatable' = IF service_name \in activatable
                      THEN activatable \ {service_name}
                      ELSE activatable \cup {service_name}
    /\ n_bus_signals' = n_bus_signals + 1
    /\ cancellable' = n_bus_signals + 1
    /\ tasks' = update_providers(tasks, n_bus_signals + 1, n_bus_signals + 1)
    /\ UNCHANGED <<init_vars, stream_vars, speaker_vars, n_events, orphaned, rpc_failed, providers, voices,
                   cancelled,
                   owners, provider_died>>

\* A task whose cancellable was cancelled ends with G_IO_ERROR_CANCELLED at
\* its next completion, and one whose call failed with that error;
\* _on_providers_updated only logs.
TaskFails(task) ==
    /\ tasks' = tasks \ {task}
    /\ UNCHANGED <<providers, voices>>

\* _update_providers_on_list_activatable_names
OnListActivatableNames(task) ==
    /\ Running
    /\ task \in tasks /\ task.phase = "ListActivatableNames"
    /\ IF task.cancellable \in cancelled
       THEN TaskFails(task)
       ELSE /\ tasks' = (tasks \ {task}) \cup
                 {[task EXCEPT !.phase = "ListNames",
                     !.provider_names = _collect_provider_names(@, ReplyOf(activatable))]}
            /\ UNCHANGED <<providers, voices>>
    /\ UNCHANGED <<init_vars, stream_vars, speaker_vars, n_events, orphaned, rpc_failed, cancellable,
                   cancelled, owners,
                   activatable, n_bus_signals, provider_died>>

\* _update_providers_on_list_names: purge the providers that are in neither
\* list and their voices, then go on to the first name without a provider
OnListNames(task) ==
    /\ Running
    /\ task \in tasks /\ task.phase = "ListNames"
    /\ IF task.cancellable \in cancelled
       THEN TaskFails(task)
       ELSE LET provider_names == _collect_provider_names(task.provider_names,
                                                          ReplyOf(owners))
                listed == {provider_names[i] : i \in 1..Len(provider_names)}
                purged == providers \cap listed
                left == _update_next_provider(purged, provider_names)
            IN /\ providers' = purged
               /\ voices' = SelectSeq(voices,
                      LAMBDA v : spiel_voice_get_provider_name(v) \in purged)
               /\ tasks' = (tasks \ {task}) \cup
                     (IF left = <<>> THEN {}
                      ELSE {[task EXCEPT !.phase = "proxy", !.provider_names = left]})
    /\ UNCHANGED <<init_vars, stream_vars, speaker_vars, n_events, orphaned, rpc_failed, cancellable,
                   cancelled, owners,
                   activatable, n_bus_signals, provider_died>>

\* _on_provider_created: the proxy of the first name was made, or not
OnProviderCreated(task, ok) ==
    /\ Running
    /\ task \in tasks /\ task.phase = "proxy"
    /\ IF task.cancellable \in cancelled \/ ~ok
       THEN TaskFails(task)
       ELSE /\ tasks' = (tasks \ {task}) \cup {[task EXCEPT !.phase = "GetVoices"]}
            /\ UNCHANGED <<providers, voices>>
    /\ UNCHANGED <<init_vars, stream_vars, speaker_vars, n_events, orphaned, rpc_failed, cancellable,
                   cancelled, owners,
                   activatable, n_bus_signals, provider_died>>

\* _on_get_voices: the provider's voices arrived, or the call failed
OnGetVoices(task, ok) ==
    /\ Running
    /\ task \in tasks /\ task.phase = "GetVoices"
    /\ IF task.cancellable \in cancelled \/ ~ok
       THEN TaskFails(task)
       ELSE LET name == Head(task.provider_names)
                reg == _add_provider_with_voices(
                           [providers |-> providers, voices |-> voices], name,
                           ProviderVoices(name))
                left == _update_next_provider(reg.providers, Tail(task.provider_names))
            IN /\ providers' = reg.providers
               /\ voices' = reg.voices
               /\ tasks' = (tasks \ {task}) \cup
                     (IF left = <<>> THEN {}
                      ELSE {[task EXCEPT !.phase = "proxy", !.provider_names = left]})
    /\ UNCHANGED <<init_vars, stream_vars, speaker_vars, n_events, orphaned, rpc_failed, cancellable,
                   cancelled, owners,
                   activatable, n_bus_signals, provider_died>>

\* ------------------------------------------------- the registry singleton
\* g_object_unref of a SpielRegistry: at the last reference
\* spiel_registry_finalize runs, which asserts that the object is sRegistry
\* and clears sRegistry.
g_object_unref(st, object) ==
    IF st.registries[object].ref_count > 1
    THEN [st EXCEPT !.registries[object].ref_count = @ - 1]
    ELSE LET gone == [st EXCEPT !.registries[object].ref_count = 0,
                                !.registries[object].phase = "finalized"]
         IN IF st.sRegistry = object
            THEN [gone EXCEPT !.sRegistry = 0]
            ELSE [gone EXCEPT !.init_aborted = TRUE]

\* spiel_registry_get: with sRegistry set, a task on it that has returned
\* TRUE (the reference of g_object_ref and the task's own); else
\* g_async_initable_new_async makes a new SpielRegistry, whose
\* async_initable_init_async calls g_bus_get, the init task holding the
\* object's one reference.
spiel_registry_get(st) ==
    IF st.sRegistry # 0
    THEN [st EXCEPT !.registries[st.sRegistry].ref_count = @ + 2,
                    !.gets = Append(@, [object |-> st.sRegistry, returned |-> TRUE,
                                        result |-> 0, held |-> FALSE])]
    ELSE [st EXCEPT !.registries = Append(@, [phase |-> "g_bus_get",
                                              ref_count |-> 1]),
                    !.gets = Append(@, [object |-> Len(st.registries) + 1,
                                        returned |-> FALSE, result |-> 0,
                                        held |-> FALSE])]

\* spiel_registry_get_finish in the callback of the i-th call, and the end
\* of the task after it: result is the object returned, -1 for NULL.
spiel_registry_get_finish(st, i) ==
    LET object == st.gets[i].object
    IN IF st.registries[object].phase = "returned"
       THEN \* g_async_initable_new_finish gives a reference, the task drops its
            LET set == IF st.sRegistry = 0 THEN [st EXCEPT !.sRegistry = object]
                       ELSE st
            IN IF set.sRegistry # object
               THEN [set EXCEPT !.init_aborted = TRUE]
               ELSE [set EXCEPT !.gets[i].result = object, !.gets[i].held = TRUE]
       ELSE g_object_unref([st EXCEPT !.gets[i].result = 0 - 1], object)

InitState ==
    [sRegistry |-> sRegistry, registries |-> registries, gets |-> gets,
     init_aborted |-> init_aborted]
InitBecomes(st) ==
    /\ sRegistry' = st.sRegistry
    /\ registries' = st.registries
    /\ gets' = st.gets
    /\ init_aborted' = st.init_aborted
    /\ UNCHANGED <<live_vars, speaker_vars, registry_vars, n_events, orphaned, rpc_failed,
                   stream_vars, list_model, voices_list_model, collect>>

\* An application, or a SpielSpeaker's init, calls spiel_registry_get.
RegistryGet ==
    /\ ~init_aborted /\ Len(gets) < MaxGets
    /\ InitBecomes(spiel_registry_get(InitState))

\* _on_bus_get of a registry's init: with the bus, update_providers is
\* started; without, the init task returns the error
RegistryOnBusGet(object, ok) ==
    /\ ~init_aborted
    /\ object \in 1..Len(registries) /\ registries[object].phase = "g_bus_get"
    /\ InitBecomes([InitState EXCEPT
           !.registries[object].phase = IF ok THEN "update_providers" ELSE "failed",
           !.gets = [i \in 1..Len(gets) |->
                        IF gets[i].object = object /\ ~ok
                        THEN [gets[i] EXCEPT !.returned = TRUE] ELSE gets[i]]])

\* _on_providers_created: the update of the providers ended, with an error
\* (which is logged) or without; the init task returns TRUE
OnProvidersCreated(object, err) ==
    /\ ~init_aborted
    /\ object \in 1..Len(registries)
    /\ registries[object].phase = "update_providers"
    /\ InitBecomes([InitState EXCEPT
           !.registries[object].phase = "returned",
           !.gets = [i \in 1..Len(gets) |->
                        IF gets[i].object = object /\ gets[i].result = 0
                        THEN [gets[i] EXCEPT !.returned = TRUE] ELSE gets[i]]])

\* The main loop runs the callback of a call whose task has returned.
RegistryGetFinish(i) ==
    /\ ~init_aborted
    /\ i \in 1..Len(gets) /\ gets[i].returned /\ gets[i].result = 0
    /\ InitBecomes(spiel_registry_get_finish(InitState, i))

\* The caller drops the reference it was given (a SpielSpeaker is disposed).
RegistryUnref(i) ==
    /\ ~init_aborted
    /\ i \in 1..Len(gets) /\ gets[i].held
    /\ InitBecomes(g_object_unref([InitState EXCEPT !.gets[i].held = FALSE],
                                  gets[i].object))

\* ------------------------------------------------- the voices of a provider
\* g_hash_table_contains on a table made with spiel_voice_hash and
\* spiel_voice_equal: a key with the same hash that is equal
g_hash_table_contains(hash_table, key) ==
    \E k \in hash_table :
        spiel_voice_equal(k, key) /\ spiel_voice_hash(k) = spiel_voice_hash(key)

\* g_list_store_insert_sorted (self->voices, voice, spiel_voice_compare) and
\* g_list_store_remove (self->voices, position).  The store emits
\* items-changed with the position (from 0) and the counts; the list as it
\* is when the handlers run is kept with it.
voices_insert_sorted(self, voice) ==
    LET before == SelectSeq(self.voices, LAMBDA w : spiel_voice_compare(w, voice) <= 0)
        after == SelectSeq(self.voices, LAMBDA w : spiel_voice_compare(w, voice) > 0)
        list == before \o <<voice>> \o after
    IN [self EXCEPT !.voices = list,
                    !.items_changed = Append(@, [position |-> Len(before),
                                                 removed |-> 0, added |-> 1,
                                                 voices |-> list])]
voices_remove(self, position) ==
    LET list == SubSeq(self.voices, 1, position)
                \o SubSeq(self.voices, position + 2, Len(self.voices))
    IN [self EXCEPT !.voices = list,
                    !.items_changed = Append(@, [position |-> position,
                                                 removed |-> 1, added |-> 0,
                                                 voices |-> list])]

\* _spiel_provider_update_voices, its first loop: a new voice the table does
\* not contain is put into the table and into the list
RECURSIVE _spiel_provider_update_voices_insert(_, _)
_spiel_provider_update_voices_insert(self, new_voices) ==
    IF new_voices = <<>> THEN self
    ELSE LET voice == Head(new_voices)
             next == IF ~g_hash_table_contains(self.voices_hashset, voice)
                     THEN voices_insert_sorted(
                              [self EXCEPT !.voices_hashset = @ \cup {voice}], voice)
                     ELSE self
         IN _spiel_provider_update_voices_insert(next, Tail(new_voices))

\* its second loop: an old voice that new_voices_hashset does not contain
\* is found in the list (g_list_store_find: the same object), removed from
\* it and from the table.  The table is walked in the order of the list.
RECURSIVE _spiel_provider_update_voices_purge(_, _, _)
_spiel_provider_update_voices_purge(self, new_voices_hashset, i) ==
    IF i > Len(self.voices) THEN self
    ELSE IF ~g_hash_table_contains(new_voices_hashset, self.voices[i])
    THEN _spiel_provider_update_voices_purge(
             voices_remove([self EXCEPT !.voices_hashset = @ \ {self.voices[i]}],
                           i - 1),
             new_voices_hashset, i)
    ELSE _spiel_provider_update_voices_purge(self, new_voices_hashset, i + 1)

\* an update that purges no old voice
_spiel_provider_update_voices_without_purge(self, new_voices) ==
    _spiel_provider_update_voices_insert(self, new_voices)

\* _spiel_provider_update_voices: new_voices_hashset is made only when the
\* provider has voices already
_spiel_provider_update_voices(self, new_voices) ==
    LET populated == self.voices_hashset # {}
        inserted == _spiel_provider_update_voices_insert(self, new_voices)
    IN IF populated
       THEN _spiel_provider_update_voices_purge(
                inserted, {new_voices[i] : i \in 1..Len(new_voices)}, 1)
       ELSE inserted

\* a handler that updates the voices whoever owns the name
handle_voices_changed_whoever_owns(self) ==
    _spiel_provider_update_voices(self, self.provider_proxy.voices)

\* handle_voices_changed of the provider: _create_provider_voices makes a
\* voice of each entry of the proxy's cached "Voices" (none when it is NULL)
handle_voices_changed(self) ==
    IF ~self.provider_proxy.name_owner /\ self.is_activatable
    THEN self
    ELSE _spiel_provider_update_voices(self, self.provider_proxy.voices)

\* _on_proxy_created, when the proxy was made: the provider takes the
\* voices its proxy has cached (none when the name has no owner)
_on_proxy_created(provider_name, is_activatable, name_owner, new_voices) ==
    _spiel_provider_update_voices(
        [name |-> provider_name,
         provider_proxy |-> [name_owner |-> name_owner, voices |-> new_voices],
         is_activatable |-> is_activatable, voices |-> <<>>,
         voices_hashset |-> {}, items_changed |-> <<>>],
        new_voices)

\* ------------------------------------------- the providers at construction
\* The names the bus daemon lists that end in the provider suffix.
ProviderServices ==
    {n \in activatable \cup owners : g_str_has_suffix(n, PROVIDER_SUFFIX)}

\* g_task_return_error, g_task_return_boolean or g_task_return_pointer on a
\* task: the first return is the task's result, a later one is refused.
g_task_return(task, result) == IF task = "pending" THEN result ELSE task

ProviderVars ==
    <<speaker_vars, registry_vars, n_events, orphaned, rpc_failed, stream_vars,
      sRegistry, registries, gets, init_aborted, live_vars>>

\* spiel_provider_compare: g_strcmp0 of the identifiers, which are the
\* well-known names
spiel_provider_compare(self, other) ==
    g_strcmp0(spiel_provider_get_well_known_name(self.name),
              spiel_provider_get_well_known_name(other.name))

\* The voices a provider advertises: one when it starts, and later one or two.
ProviderVoiceLists(provider_name) ==
    LET voice(identifier) ==
            [provider |-> provider_name, name |-> <<97>>, identifier |-> identifier,
             languages |-> <<>>, output_format |-> <<114>>]
    IN <<<<voice(<<97>>)>>, <<voice(<<97>>), voice(<<97, 98>>)>>>>

\* spiel_provider_new_direct, when its proxy was made: the proxy has the
\* name's owner and, with an owner, the voices the provider starts with
spiel_provider_new_direct(provider_name, is_activatable) ==
    _on_proxy_created(provider_name, is_activatable, provider_name \in owners,
                      IF provider_name \in owners
                      THEN ProviderVoiceLists(provider_name)[1] ELSE <<>>)

\* spiel_voices_list_model_get_n_items
RECURSIVE spiel_voices_list_model_get_n_items(_)
spiel_voices_list_model_get_n_items(providers_list) ==
    IF providers_list = <<>> THEN 0
    ELSE Len(Head(providers_list).voices)
         + spiel_voices_list_model_get_n_items(Tail(providers_list))

\* spiel_voices_list_model_get_item: the voice at a position (from 0) of the
\* provider the position falls into, <<>> (NULL) past the end
RECURSIVE spiel_voices_list_model_get_item(_, _)
spiel_voices_list_model_get_item(providers_list, position) ==
    IF providers_list = <<>> THEN <<>>
    ELSE IF position < Len(Head(providers_list).voices)
    THEN Head(providers_list).voices[position + 1]
    ELSE spiel_voices_list_model_get_item(
             Tail(providers_list), position - Len(Head(providers_list).voices))

\* handle_voices_changed of the voices list model, for each items-changed of
\* the voice list of the provider at index changed (from 1): each provider
\* before it adds the length of the changed list to the offset
RECURSIVE spiel_voices_list_model_handle_voices_changed(_, _, _, _)
spiel_voices_list_model_handle_voices_changed(self, providers_list, changed, items_changed) ==
    IF items_changed = <<>> THEN self
    ELSE LET e == Head(items_changed)
             offset == (changed - 1) * Len(e.voices)
         IN spiel_voices_list_model_handle_voices_changed(
                [self EXCEPT !.items_changed =
                    Append(@, [position |-> e.position + offset,
                               removed |-> e.removed, added |-> e.added,
                               providers_list |->
                                   [providers_list EXCEPT ![changed].voices = e.voices]])],
                providers_list, changed, Tail(items_changed))

\* handle_providers_changed, for each items-changed of the providers list:
\* the removed providers are those mirrored_providers holds, the added ones
\* are read from the list, the offset is the voices before the position
RECURSIVE spiel_voices_list_model_handle_providers_changed(_, _)
spiel_voices_list_model_handle_providers_changed(self, items_changed) ==
    IF items_changed = <<>> THEN self
    ELSE LET e == Head(items_changed)
             mirrored == self.mirrored_providers
             gone == SubSeq(mirrored, e.position + 1, e.position + e.removed)
             removed_voices_count ==
                 spiel_voices_list_model_get_n_items(
                     SelectSeq(e.before,
                         LAMBDA q : \E i \in 1..Len(gone) : gone[i] = q.name))
             come == SubSeq(e.providers_list, e.position + 1, e.position + e.added)
             added_voices_count == spiel_voices_list_model_get_n_items(come)
             offset == spiel_voices_list_model_get_n_items(
                           SubSeq(e.providers_list, 1, e.position))
         IN spiel_voices_list_model_handle_providers_changed(
                [self EXCEPT
                    !.mirrored_providers =
                        SubSeq(mirrored, 1, e.position)
                        \o [i \in 1..Len(come) |-> come[i].name]
                        \o SubSeq(mirrored, e.position + e.removed + 1, Len(mirrored)),
                    !.items_changed =
                        Append(@, [position |-> offset,
                                   removed |-> removed_voices_count,
                                   added |-> added_voices_count,
                                   providers_list |-> e.providers_list])],
                Tail(items_changed))

\* What a handler of the list model leaves: the list model, and the voices
\* list model after the handlers of the items-changed the handler emitted.
ListBecomes(lm) ==
    /\ list_model' = lm
    /\ voices_list_model' =
          spiel_voices_list_model_handle_providers_changed(
              [voices_list_model EXCEPT !.items_changed = <<>>], lm.items_changed)

\* spiel_providers_list_model_new
ProvidersListModelNew ==
    /\ list_model.phase = "none"
    /\ list_model' = [list_model EXCEPT !.phase = "g_bus_get"]
    /\ UNCHANGED <<ProviderVars, collect, voices_list_model>>

\* _on_bus_get of the list model
ListModelOnBusGet(ok) ==
    /\ list_model.phase = "g_bus_get"
    /\ list_model' =
          IF ok THEN [list_model EXCEPT !.phase = "services"]
          ELSE [list_model EXCEPT !.phase = "done", !.task_freed = TRUE,
                                  !.task = g_task_return(@, "error: bus")]
    /\ UNCHANGED <<ProviderVars, collect, voices_list_model>>

\* _on_providers_collected: a spiel_provider_new_direct call is started for
\* each service, the construction task as its user data, and the list model
\* subscribes to the two signals of the bus daemon
OnProvidersCollected(ok) ==
    /\ list_model.phase = "services"
    /\ list_model' =
          IF ok
          THEN [list_model EXCEPT
                   !.phase = "providers",
                   !.initializing_providers = ProviderServices,
                   !.creating = {[name |-> n, is_activatable |-> n \in activatable,
                                  initial |-> TRUE] : n \in ProviderServices}]
          ELSE [list_model EXCEPT !.phase = "done", !.task_freed = TRUE,
                                  !.task = g_task_return(@, "error: services")]
    /\ UNCHANGED <<ProviderVars, collect, voices_list_model>>

\* an insertion at the end of the list
_insert_provider_at_end(lm, provider_name, new_provider) ==
    [lm EXCEPT !.initializing_providers = @ \ {provider_name},
               !.providers_list = Append(@, new_provider),
               !.gained = @ \ {provider_name},
               !.items_changed =
                   Append(@, [position |-> Len(lm.providers_list), removed |-> 0,
                              added |-> 1, before |-> lm.providers_list,
                              providers_list |-> Append(lm.providers_list, new_provider)])]

\* _insert_provider: the two g_asserts, then g_list_store_insert_sorted with
\* spiel_provider_compare, which emits items-changed
_insert_provider(lm, provider_name, new_provider) ==
    IF \/ provider_name \notin lm.initializing_providers
       \/ \E i \in 1..Len(lm.providers_list) : lm.providers_list[i].name = provider_name
    THEN [lm EXCEPT !.aborted = TRUE]
    ELSE LET before == SelectSeq(lm.providers_list,
                           LAMBDA q : spiel_provider_compare(q, new_provider) <= 0)
             after == SelectSeq(lm.providers_list,
                          LAMBDA q : spiel_provider_compare(q, new_provider) > 0)
             list == before \o <<new_provider>> \o after
         IN [lm EXCEPT !.initializing_providers = @ \ {provider_name},
                       !.providers_list = list,
                       !.gained = @ \ {provider_name},
                       !.items_changed =
                           Append(@, [position |-> Len(before), removed |-> 0,
                                      added |-> 1, before |-> lm.providers_list,
                                      providers_list |-> list])]

\* _on_initial_provider_created
_on_initial_provider_created(lm, provider_name, ok, new_provider) ==
    IF ~ok
    THEN [lm EXCEPT !.task = g_task_return(@, "error: provider"),
                    !.task_freed = TRUE, !.failed = @ \cup {provider_name},
                    !.gained = @ \ {provider_name}]
    ELSE LET inserted == _insert_provider(lm, provider_name, new_provider)
         IN IF inserted.aborted THEN inserted
            ELSE IF inserted.initializing_providers = {}
            THEN [inserted EXCEPT !.task = g_task_return(@, "ok"),
                                  !.task_freed = TRUE]
            ELSE inserted

\* The callback of a spiel_provider_new_direct call.  When the task was
\* freed by an earlier callback its memory is read after the free: the
\* process may die of it, or go on as if the task were there.
OnInitialProviderCreated(provider_name, ok, survives) ==
    /\ list_model.phase = "providers" /\ ~list_model.aborted
    /\ list_model.task_freed \/ survives
    /\ \E c \in list_model.creating :
          /\ c.name = provider_name /\ c.initial
          /\ LET called == [list_model EXCEPT !.creating = @ \ {c},
                                              !.items_changed = <<>>]
             IN ListBecomes(
                    IF list_model.task_freed /\ ~survives
                    THEN [called EXCEPT !.aborted = TRUE]
                    ELSE _on_initial_provider_created(
                             called, provider_name, ok,
                             spiel_provider_new_direct(provider_name,
                                                       c.is_activatable)))
    /\ UNCHANGED <<ProviderVars, collect>>

\* ------------------------------------------- the providers while running
\* What the two subscriptions leave untouched.
ListModelVars ==
    <<speaker_vars, n_events, orphaned, rpc_failed, stream_vars, sRegistry,
      registries, gets, init_aborted, collect, live_vars, providers, voices,
      cancellable, cancelled, tasks, provider_died>>

\* _get_provider_services: a task that will run
\* _get_provider_services_in_thread_func on a thread of the pool; lost is
\* the name the signal said has no owner any more, "" for any other signal
_get_provider_services(lm, id, lost) ==
    [lm EXCEPT !.tasks = @ \cup {[id |-> id, lost |-> lost, providers |-> <<>>]}]

\* The proxy of a provider learns that its name has a new owner, or none:
\* the cached properties go with the owner and come with the new one, and
\* notify::voices runs the provider's handle_voices_changed.
ProxyNameOwnerChanged(self, lost) ==
    handle_voices_changed(
        [self EXCEPT !.provider_proxy.name_owner = ~lost,
                     !.provider_proxy.voices =
                         IF lost THEN <<>> ELSE ProviderVoiceLists(self.name)[1],
                     !.items_changed = <<>>])

\* What a change of a provider in the list leaves: the provider in the
\* list, and the voices list model after its handle_voices_changed for the
\* items-changed that the provider's list of voices emitted.
ProviderBecomes(lm, changed, self) ==
    /\ list_model' = [lm EXCEPT !.providers_list[changed] = self,
                                !.items_changed = <<>>]
    /\ voices_list_model' =
          spiel_voices_list_model_handle_voices_changed(
              [voices_list_model EXCEPT !.items_changed = <<>>],
              lm.providers_list, changed, self.items_changed)

\* The bus daemon's NameOwnerChanged (service_name, _, new_owner), lost when
\* new_owner is "": the proxy of the name's provider hears of it, and
\* _maybe_running_providers_changed starts an enumeration for a name with
\* the suffix.
ListModelNameOwnerChanged(service_name, lost) ==
    /\ list_model.phase = "providers" /\ ~list_model.aborted
    /\ n_bus_signals < MaxBusSignals
    /\ service_name \in BusNames
    /\ IF lost THEN service_name \in owners ELSE service_name \notin owners
    /\ owners' = IF lost THEN owners \ {service_name} ELSE owners \cup {service_name}
    /\ n_bus_signals' = n_bus_signals + 1
    /\ LET tracked == {i \in 1..Len(list_model.providers_list) :
                          list_model.providers_list[i].name = service_name}
           heard == IF g_str_has_suffix(service_name, PROVIDER_SUFFIX)
                    THEN [_get_provider_services(
                              list_model, n_bus_signals + 1,
                              IF lost THEN service_name ELSE "")
                          EXCEPT !.gained = IF ~lost /\ tracked = {}
                                            THEN @ \cup {service_name}
                                            ELSE @ \ {service_name}]
                    ELSE list_model
       IN IF tracked = {}
          THEN /\ list_model' = [heard EXCEPT !.items_changed = <<>>]
               /\ voices_list_model' = [voices_list_model EXCEPT !.items_changed = <<>>]
          ELSE \E changed \in tracked :
                  ProviderBecomes(heard, changed,
                      ProxyNameOwnerChanged(list_model.providers_list[changed], lost))
    /\ UNCHANGED <<ListModelVars, activatable>>

\* The bus daemon's ActivatableServicesChanged, after a service file came or
\* went: _maybe_activatable_providers_changed starts an enumeration.
ListModelActivatableServicesChanged(service_name) ==
    /\ list_model.phase = "providers" /\ ~list_model.aborted
    /\ n_bus_signals < MaxBusSignals
    /\ service_name \in {ProviderA, ProviderB}
    /\ activatable' = IF service_name \in activatable
                      THEN activatable \ {service_name}
                      ELSE activatable \cup {service_name}
    /\ n_bus_signals' = n_bus_signals + 1
    /\ list_model' = [_get_provider_services(list_model, n_bus_signals + 1, "")
                      EXCEPT !.items_changed = <<>>]
    /\ voices_list_model' = [voices_list_model EXCEPT !.items_changed = <<>>]
    /\ UNCHANGED <<ListModelVars, owners>>

\* _get_provider_services_in_thread_func on its thread: the names with the
\* suffix that ListActivatableNames and ListNames return, each with TRUE
\* when the first call returned it.  The two calls are taken to see the same
\* names.
GetProviderServicesInThread(id) ==
    /\ ~list_model.aborted
    /\ \E task \in list_model.tasks :
          /\ task.id = id /\ task.providers = <<>>
          /\ list_model' =
                [list_model EXCEPT
                    !.tasks = (@ \ {task}) \cup
                        {[task EXCEPT !.providers =
                             <<[n \in ProviderServices |-> n \in activatable]>>]}]
    /\ UNCHANGED <<ProviderVars, registry_vars, collect, voices_list_model>>

\* _on_providers_updated, its second loop: from the last provider of the
\* list to the first, one that is not among the services is removed
RECURSIVE _on_providers_updated_remove(_, _, _)
_on_providers_updated_remove(lm, services, i) ==
    IF i < 1 THEN lm
    ELSE IF lm.providers_list[i].name \notin DOMAIN services
    THEN LET list == SubSeq(lm.providers_list, 1, i - 1)
                     \o SubSeq(lm.providers_list, i + 1, Len(lm.providers_list))
         IN _on_providers_updated_remove(
                [lm EXCEPT !.providers_list = list,
                           !.items_changed =
                               Append(@, [position |-> i - 1, removed |-> 1,
                                          added |-> 0, before |-> lm.providers_list,
                                          providers_list |-> list])],
                services, i - 1)
    ELSE _on_providers_updated_remove(lm, services, i - 1)

\* an update that removes no provider
_on_providers_updated_without_removal(lm, services) ==
    lm

\* _on_providers_updated: a provider of the list gets its is_activatable, a
\* name that is neither in the list nor in initializing_providers gets a
\* spiel_provider_new_direct call, then services are removed
_on_providers_updated(lm, services) ==
    LET known == {lm.providers_list[i].name : i \in 1..Len(lm.providers_list)}
        fresh == (DOMAIN services \ known) \ lm.initializing_providers
    IN _on_providers_updated_remove(
           [lm EXCEPT
               !.providers_list =
                   [i \in 1..Len(lm.providers_list) |->
                       IF lm.providers_list[i].name \in DOMAIN services
                       THEN [lm.providers_list[i] EXCEPT
                                !.is_activatable = services[lm.providers_list[i].name]]
                       ELSE lm.providers_list[i]],
               !.initializing_providers = @ \cup fresh,
               !.creating = @ \cup {[name |-> n, is_activatable |-> services[n],
                                     initial |-> FALSE] : n \in fresh}],
           services, Len(lm.providers_list))

\* The callback of an enumeration that a signal started.
OnProvidersUpdated(id) ==
    /\ ~list_model.aborted
    /\ \E task \in list_model.tasks :
          /\ task.id = id /\ task.providers # <<>>
          /\ ListBecomes(_on_providers_updated(
                             [list_model EXCEPT !.tasks = @ \ {task},
                                                !.items_changed = <<>>],
                             task.providers[1]))
    /\ UNCHANGED <<ProviderVars, registry_vars, collect>>

\* _on_provider_created of the list model
_on_provider_created(lm, provider_name, ok, new_provider) ==
    IF ~ok
    THEN [lm EXCEPT !.failed = @ \cup {provider_name},
                    !.gained = @ \ {provider_name}]
    ELSE _insert_provider(lm, provider_name, new_provider)

\* The callback of a spiel_provider_new_direct call that
\* _on_providers_updated made.
ListModelOnProviderCreated(provider_name, ok) ==
    /\ ~list_model.aborted
    /\ \E c \in list_model.creating :
          /\ c.name = provider_name /\ ~c.initial
          /\ ListBecomes(_on_provider_created(
                             [list_model EXCEPT !.creating = @ \ {c},
                                                !.items_changed = <<>>],
                             provider_name, ok,
                             spiel_provider_new_direct(provider_name,
                                                       c.is_activatable)))
    /\ UNCHANGED <<ProviderVars, registry_vars, collect>>

\* The "Voices" property of a provider of the list changes: notify::voices
\* runs the provider's handle_voices_changed.
ProviderVoicesChanged(provider_name, new_voices) ==
    /\ ~list_model.aborted
    /\ n_bus_signals < MaxBusSignals
    /\ n_bus_signals' = n_bus_signals + 1
    /\ \E changed \in 1..Len(list_model.providers_list) :
          LET self == list_model.providers_list[changed]
          IN /\ self.name = provider_name
             /\ self.provider_proxy.name_owner
             /\ self.provider_proxy.voices # new_voices
             /\ ProviderBecomes(list_model, changed,
                    handle_voices_changed(
                        [self EXCEPT !.provider_proxy.voices = new_voices,
                                     !.items_changed = <<>>]))
    /\ UNCHANGED <<ListModelVars, owners, activatable>>

\* spiel_collect_providers: the task, its closure and the first call
SpielCollectProviders ==
    /\ collect.phase = "none"
    /\ collect' = [collect EXCEPT !.phase = "ListActivatableNames"]
    /\ UNCHANGED <<ProviderVars, list_model, voices_list_model>>

\* _on_list_activatable_names
CollectOnListActivatableNames(ok) ==
    /\ collect.phase = "ListActivatableNames"
    /\ collect' =
          IF ok
          THEN [collect EXCEPT
                   !.phase = "ListNames",
                   !.providers = @ \cup {n \in activatable :
                                            g_str_has_suffix(n, PROVIDER_SUFFIX)}]
          ELSE [collect EXCEPT !.phase = "idle",
                               !.task = g_task_return(@, "error: names")]
    /\ UNCHANGED <<ProviderVars, list_model, voices_list_model>>

\* _create_next_provider: the proxy of the first name to process is asked
\* for; with no name to process it reads through a NULL pointer
_create_next_provider(c) ==
    IF c.providers_to_process = <<>> THEN [c EXCEPT !.aborted = TRUE]
    ELSE [c EXCEPT !.phase = "proxy"]

\* _on_list_names; keys is g_hash_table_get_keys (closure->providers), in
\* the order the table gives
CollectOnListNames(ok, keys) ==
    /\ collect.phase = "ListNames"
    /\ LET all == collect.providers \cup
                     {n \in owners : g_str_has_suffix(n, PROVIDER_SUFFIX)}
       IN /\ Len(keys) = Cardinality(all)
          /\ {keys[i] : i \in 1..Len(keys)} = all
          /\ collect' =
                IF ok
                THEN _create_next_provider(
                         [collect EXCEPT !.providers = all,
                                         !.providers_to_process = keys])
                ELSE [collect EXCEPT !.phase = "idle",
                                     !.task = g_task_return(@, "error: names")]
    /\ UNCHANGED <<ProviderVars, list_model, voices_list_model>>

\* _on_provider_created of the collection, the outcome of
\* spiel_provider_proxy_new_for_bus_finish being "ok", "error" or "cancelled"
collect_on_provider_created(c, outcome, checks) ==
    LET service_name == Head(c.providers_to_process)
    IN IF outcome = "cancelled"
       THEN [c EXCEPT !.phase = "idle",
                      !.task = g_task_return(@, "error: cancelled")]
       ELSE IF outcome = "error"
       THEN LET rest == [c EXCEPT !.providers_to_process = Tail(@),
                                  !.failed = @ \cup {service_name},
                                  !.phase = "idle"]
                next == IF rest.providers_to_process # <<>>
                        THEN _create_next_provider(rest) ELSE rest
            IN \* no return: spiel_provider_call_get_voices is called with
               \* provider == NULL; a GLib built with its checks logs a
               \* critical and returns without a call, one built without
               \* them reads through the pointer
               IF checks THEN next ELSE [next EXCEPT !.aborted = TRUE]
       ELSE [c EXCEPT !.with_proxy = @ \cup {service_name},
                      !.phase = "GetVoices"]

CollectOnProviderCreated(outcome, checks) ==
    /\ collect.phase = "proxy" /\ ~collect.aborted
    /\ collect' = collect_on_provider_created(collect, outcome, checks)
    /\ UNCHANGED <<ProviderVars, list_model, voices_list_model>>

\* _on_collect_providers_get_voices; _finish_get_voices_into_slist counts
\* the children of a NULL GVariant when the call failed
_on_collect_providers_get_voices(c, ok, checks) ==
    LET service_name == Head(c.providers_to_process)
        got == IF ok THEN [c EXCEPT !.with_voices = @ \cup {service_name}]
               ELSE [c EXCEPT !.failed = @ \cup {service_name},
                              !.aborted = ~checks]
        rest == [got EXCEPT !.providers_to_process = Tail(@)]
    IN IF got.aborted THEN got
       ELSE IF rest.providers_to_process # <<>>
       THEN _create_next_provider(rest)
       ELSE [rest EXCEPT !.phase = "idle", !.task = g_task_return(@, "ok")]

CollectOnGetVoices(ok, checks) ==
    /\ collect.phase = "GetVoices" /\ ~collect.aborted
    /\ collect' = _on_collect_providers_get_voices(collect, ok, checks)
    /\ UNCHANGED <<ProviderVars, list_model, voices_list_model>>

\* ------------------------------------------------------------ specification
\* ------------------------------------------------------- the voice object
\* test_voice_utils: spiel_voice_equal, spiel_voice_hash and
\* spiel_voice_compare are called on two voices
VoiceUtils(voice1, voice2) ==
    /\ compared = <<>>
    /\ compared' = <<[voice1 |-> voice1, voice2 |-> voice2,
                      equal |-> spiel_voice_equal(voice1, voice2),
                      hash1 |-> spiel_voice_hash(voice1),
                      hash2 |-> spiel_voice_hash(voice2),
                      compare |-> spiel_voice_compare(voice1, voice2)]>>
    /\ UNCHANGED <<speaker_vars, registry_vars, n_events, orphaned, rpc_failed,
                   stream_vars, sRegistry, registries, gets, init_aborted,
                   list_model, voices_list_model, collect, resolved, spiel_provider>>

\* ------------------------------------------------- a provider on its own
\* What a provider may advertise: voices named "a" of this provider, two of
\* them alike but for the output format, others alike but for the languages.
AdvertisedVoices ==
    {v \in VoiceObjects :
        /\ v.provider = ProviderA /\ v.name = <<97>> /\ Len(v.languages) < 2
        /\ v.output_format = <<114>> \/ (v.identifier = <<97>> /\ v.languages = <<>>)}
AdvertisedLists ==
    {<<>>} \cup {<<v>> : v \in AdvertisedVoices}
           \cup {<<v, w>> : v, w \in AdvertisedVoices}

\* spiel_provider_new_direct and its _on_proxy_created: the provider is made
\* for a proxy that has its name's owner and cached properties (no owner:
\* no properties)
ProviderNew(is_activatable, name_owner, new_voices) ==
    /\ spiel_provider = <<>>
    /\ name_owner \/ new_voices = <<>>
    /\ spiel_provider' =
          <<_on_proxy_created(ProviderA, is_activatable, name_owner, new_voices)>>
    /\ UNCHANGED <<speaker_vars, registry_vars, n_events, orphaned, rpc_failed,
                   stream_vars, sRegistry, registries, gets, init_aborted,
                   list_model, voices_list_model, collect, compared, resolved>>

\* The proxy's "Voices" property changes, or its name gets or loses its
\* owner (the proxy drops its cached properties with the owner):
\* notify::voices is emitted and handle_voices_changed runs.
ProxyNotifyVoices(name_owner, new_voices) ==
    /\ spiel_provider # <<>>
    /\ name_owner \/ new_voices = <<>>
    /\ <<name_owner, new_voices>> #
           <<spiel_provider[1].provider_proxy.name_owner, spiel_provider[1].provider_proxy.voices>>
    /\ spiel_provider' =
          <<handle_voices_changed(
                [spiel_provider[1] EXCEPT !.provider_proxy.name_owner = name_owner,
                                    !.provider_proxy.voices = new_voices,
                                    !.items_changed = <<>>])>>
    /\ UNCHANGED <<speaker_vars, registry_vars, n_events, orphaned, rpc_failed,
                   stream_vars, sRegistry, registries, gets, init_aborted,
                   list_model, voices_list_model, collect, compared, resolved>>

\* spiel_provider_set_is_activatable, as _on_providers_updated calls it
ProviderSetIsActivatable(is_activatable) ==
    /\ spiel_provider # <<>>
    /\ spiel_provider' = <<[spiel_provider[1] EXCEPT !.is_activatable = is_activatable,
                                         !.items_changed = <<>>]>>
    /\ UNCHANGED <<speaker_vars, registry_vars, n_events, orphaned, rpc_failed,
                   stream_vars, sRegistry, registries, gets, init_aborted,
                   list_model, voices_list_model, collect, compared, resolved>>

\* ------------------------------------------------- the voice of an utterance
\* What the two GSettings keys may hold: a default voice that exists or one
\* that does not, and a mapping of "en" to a voice that exists or to one
\* that does not, of "hy-am", or of "hy" and "hy-am-x" to different voices.
SettingsValues ==
    [installed : BOOLEAN,
     default_voice : {<<>>, <<ProviderB, "b-bad">>, <<ProviderA, "a-gone">>},
     language_voice_mapping :
         {[tag \in {} |-> <<>>],
          [tag \in {<<"e", "n">>} |-> <<ProviderA, "a-spiel">>],
          [tag \in {<<"e", "n">>} |-> <<ProviderA, "a-gone">>],
          [tag \in {<<"h", "y", "-", "a", "m">>} |-> <<ProviderA, "a-raw">>],
          [tag \in {<<"h", "y">>, <<"h", "y", "-", "a", "m", "-", "x">>} |->
              IF Len(tag) = 2 THEN <<ProviderA, "a-spiel">>
              ELSE <<ProviderB, "b-bad">>]}]

\* The language tags of the utterances (BCP 47: segments of letters and
\* digits with '-' between them).
Languages ==
    {<<"e", "n">>, <<"f", "r">>, <<"d", "e">>, <<"h", "y">>,
     <<"h", "y", "-", "a", "m">>, <<"h", "y", "-", "a", "m", "-", "x">>,
     <<"h", "y", "-", "a", "m", "-", "x", "-", "y">>, <<"e", "n", "-", "u", "s">>}

\* spiel_registry_get_voice_for_utterance is called for an utterance with
\* that voice and language, the registry holding the voices of provs.
GetVoiceForUtterance(settings, provs, utterance_voice, language) ==
    /\ resolved = <<>>
    /\ LET vs == SelectSeq(voices,
                     LAMBDA v : spiel_voice_get_provider_name(v) \in provs)
       IN resolved' =
              <<[settings |-> settings, providers |-> provs, voices |-> vs,
                 utterance_voice |-> utterance_voice, language |-> language,
                 mapped |-> IF language # NoLanguage /\ settings.installed
                            THEN LookupLanguageMapping(
                                     settings.language_voice_mapping, language,
                                     Len(language), -1)
                            ELSE <<>>,
                 voice |-> spiel_registry_get_voice_for_utterance(
                               settings, provs, vs, utterance_voice, language)]>>
    /\ UNCHANGED <<speaker_vars, registry_vars, n_events, orphaned, rpc_failed,
                   stream_vars, sRegistry, registries, gets, init_aborted,
                   list_model, voices_list_model, collect, compared, spiel_provider>>

Init ==
    /\ queue = <<>>
    /\ paused = FALSE
    /\ pipeline = [state |-> "NULL", target |-> "NULL", bin |-> {}, eos |-> FALSE]
    /\ bus = <<>>
    /\ calls = {}
    /\ utt_voice = InitialVoice
    /\ signals = <<>>
    /\ aborted = FALSE
    /\ n_entries = 0
    /\ n_events = 0
    /\ unvoiced = {}
    /\ spoken = <<>>
    /\ dumped = {}
    /\ pausing = FALSE
    /\ mypipe = {}
    /\ handler = [does |-> "nothing", survives |-> TRUE, called |-> FALSE,
                  freed_entry_accessed |-> FALSE]
    /\ rpc_failed = {}
    /\ providers = {ProviderA, ProviderB}
    /\ voices = <<"a-raw", "a-spiel", "b-bad">>
    /\ cancellable = 0
    /\ cancelled = {}
    /\ tasks = {}
    /\ owners = {ProviderA}
    /\ activatable = {ProviderB}
    /\ n_bus_signals = 0
    /\ provider_died = {}
    /\ orphaned = {}
    /\ start_failed = {}
    /\ reader = Reader(<<>>, FALSE)
    /\ writer = [stream_header_sent |-> FALSE, aborted |-> FALSE]
    /\ provider_src = [pc |-> "stopped", started |-> FALSE, got_event |-> FALSE,
                       flow |-> "none"]
    /\ sent = <<>>
    /\ written = <<>>
    /\ received = <<>>
    /\ sRegistry = 0
    /\ registries = <<>>
    /\ gets = <<>>
    /\ init_aborted = FALSE
    /\ list_model = [phase |-> "none", initializing_providers |-> {},
                     creating |-> {}, providers_list |-> <<>>, failed |-> {},
                     task |-> "pending", task_freed |-> FALSE, aborted |-> FALSE,
                     tasks |-> {}, items_changed |-> <<>>, gained |-> {}]
    /\ voices_list_model = [mirrored_providers |-> <<>>, items_changed |-> <<>>]
    /\ collect = [phase |-> "none", providers |-> {}, with_proxy |-> {},
                  with_voices |-> {}, providers_to_process |-> <<>>,
                  failed |-> {}, task |-> "pending", aborted |-> FALSE]
    /\ compared = <<>>
    /\ resolved = <<>>
    /\ spiel_provider = <<>>

\* The speaker and the pipeline, over a population of providers that stays.
Spec == Init /\ [][
                \/ \E u \in Utterances : Speak(u, MaxSpeak)
                \/ Pause
                \/ Resume
                \/ Cancel
                \/ HandleGstStateChange
                \/ HandleGstEos
                \/ HandleGstElementMessage
                \/ \E call \in calls, err \in BOOLEAN : ProviderCallSynthesizeDone(call, err)
                \/ GstStateChanged
                \/ GstEos
                \/ \E t \in EventTypes : ProviderSrcEvent(t)
            ]_vars

\* The speaker of an application whose handler of the terminal signals
\* calls back into the speaker.
SpecHandler == Init /\ [][
                \/ \E u \in Utterances : Speak(u, MaxSpeak)
                \/ Pause
                \/ Resume
                \/ Cancel
                \/ HandleGstStateChange
                \/ HandleGstEos
                \/ \E call \in calls, err \in BOOLEAN : ProviderCallSynthesizeDone(call, err)
                \/ GstStateChanged
                \/ GstEos
                \/ \E does \in {"cancel", "speak"}, survives \in BOOLEAN :
                      ConnectHandler(does, survives)
            ]_vars

\* A longer queue of utterances whose streams carry no events.
SpecQueue == Init /\ [][
                \/ \E u \in Utterances : Speak(u, MaxSpeakQueue)
                \/ Pause
                \/ Resume
                \/ Cancel
                \/ HandleGstStateChange
                \/ HandleGstEos
                \/ \E call \in calls, err \in BOOLEAN : ProviderCallSynthesizeDone(call, err)
                \/ GstStateChanged
                \/ GstEos
            ]_vars

\* The speaker with fewer utterances, whose provider announces words only,
\* while bus names come, go and are listed.
SpecOnBus == Init /\ [][
                \/ \E u \in Utterances : Speak(u, MaxSpeakOnBus)
                \/ Pause
                \/ Resume
                \/ Cancel
                \/ HandleGstStateChange
                \/ HandleGstEos
                \/ HandleGstElementMessage
                \/ \E call \in calls, err \in BOOLEAN : ProviderCallSynthesizeDone(call, err)
                \/ GstStateChanged
                \/ GstEos
                \/ ProviderSrcEvent(SPEECH_PROVIDER_EVENT_TYPE_WORD)
                \/ \E n \in BusNames, lost \in BOOLEAN : NameOwnerChanged(n, lost)
                \/ \E n \in BusNames : ActivatableServicesChanged(n)
                \/ \E task \in tasks : OnListActivatableNames(task)
                \/ \E task \in tasks : OnListNames(task)
                \/ \E task \in tasks, ok \in BOOLEAN : OnProviderCreated(task, ok)
                \/ \E task \in tasks, ok \in BOOLEAN : OnGetVoices(task, ok)
            ]_vars

\* The speaker and the pipeline when a provider may write any header.
SpecHeader == Init /\ [][
                \/ \E u \in Utterances : Speak(u, MaxSpeak)
                \/ Pause
                \/ Resume
                \/ Cancel
                \/ HandleGstStateChange
                \/ HandleGstEos
                \/ UnhandledGstMessage
                \/ \E call \in calls, err \in BOOLEAN : ProviderCallSynthesizeDone(call, err)
                \/ GstStateChanged
                \/ GstEos
                \* the first bytes a provider may write into its pipe: "0.01", "0.02", "1.00"
                \/ \E version \in {SPEECH_PROVIDER_STREAM_PROTOCOL_VERSION,
                                    <<48, 46, 48, 50>>, <<49, 46, 48, 48>>} :
                      ProviderSrcStart(version)
                \/ ProviderSrcStartAgain
            ]_vars

\* The speaker and a pipeline that completes the state changes it is asked
\* for, under a main loop that dispatches the bus messages.

\* A provider that writes a stream and closes it, every write() taken whole,
\* and a client that calls the reader.
SpecStream == Init /\ [][
                \/ SendStreamHeader(Whole)
                \/ \E chunk \in AudioChunks : SendAudio(chunk, Whole)
                \/ \E e \in EventsSent : SendEvent(e, Whole)
                \/ WriterClose
                \/ \E junk \in Junk : SrcStart(junk)
                \/ \E junk \in Junk : GetAudio(junk)
                \/ \E junk \in Junk : GetEvent(junk)
            ]_vars

\* The same provider and the SpielProviderSrc on the reader.

\* The reader call of each half of create() can return: the states in which
\* the half is enabled.
CanGetEvent ==
    /\ ~reader.aborted
    /\ provider_src.started /\ provider_src.pc = "event"
    /\ provider_src.flow # "GST_FLOW_EOS"
    /\ \E junk \in Junk :
          ~speech_provider_stream_reader_get_event(reader, junk).r.blocked
CanGetAudio ==
    /\ ~reader.aborted
    /\ provider_src.started /\ provider_src.pc = "audio"
    /\ ~speech_provider_stream_reader_get_audio(reader, 0).r.blocked

\* The source's streaming task calls create() again and again until it
\* returns end-of-stream, and a call that can return does: weak fairness of
\* the two halves, WF_vars(\E junk \in Junk : SrcCreateGetEvent(junk)) and
\* WF_vars(SrcCreateGetAudio), written with the enabling conditions above.
SpecSrc ==
    /\ Init /\ [][
                \/ SendStreamHeader(Whole)
                \/ \E chunk \in AudioChunks : SendAudio(chunk, Whole)
                \/ \E e \in EventsSent : SendEvent(e, Whole)
                \/ WriterClose
                \/ \E junk \in Junk : SrcStart(junk)
                \/ \E junk \in Junk : SrcCreateGetEvent(junk)
                \/ SrcCreateGetAudio
            ]_vars
    /\ \/ []<>~CanGetEvent
       \/ []<><<\E junk \in Junk : SrcCreateGetEvent(junk)>>_vars
    /\ \/ []<>~CanGetAudio
       \/ []<><<SrcCreateGetAudio>>_vars

\* A provider whose write()s may be cut short, or which stops between two of
\* them, and a client that reads the stream once its write end is closed.
SpecShort == Init /\ [][
                \/ \E accepted \in Accepted : SendStreamHeader(accepted)
                \/ \E chunk \in AudioChunks, accepted \in Accepted : SendAudio(chunk, accepted)
                \/ \E e \in EventsSent, accepted \in Accepted : SendEvent(e, accepted)
                \/ WriterClose
                \/ \E junk \in Junk : reader.closed /\ SrcStart(junk)
                \/ \E junk \in Junk : reader.closed /\ GetAudio(junk)
                \/ \E junk \in Junk : reader.closed /\ GetEvent(junk)
            ]_vars

\* Applications that ask for the registry, keep it and let go of it.
SpecGet == Init /\ [][
                \/ RegistryGet
                \/ \E object \in 1..MaxGets, ok \in BOOLEAN : RegistryOnBusGet(object, ok)
                \/ \E object \in 1..MaxGets, err \in BOOLEAN : OnProvidersCreated(object, err)
                \/ \E i \in 1..MaxGets : RegistryGetFinish(i)
                \/ \E i \in 1..MaxGets : RegistryUnref(i)
            ]_vars

\* The providers the bus lists are made into the list model and collected,
\* while proxies and voice calls succeed or fail one by one.
SpecProviders == Init /\ [][
                \/ ProvidersListModelNew
                \/ \E ok \in BOOLEAN : ListModelOnBusGet(ok)
                \/ \E ok \in BOOLEAN : OnProvidersCollected(ok)
                \/ \E n \in BusNames, ok \in BOOLEAN, survives \in BOOLEAN :
                      OnInitialProviderCreated(n, ok, survives)
                \/ SpielCollectProviders
                \/ \E ok \in BOOLEAN : CollectOnListActivatableNames(ok)
                \/ \E ok \in BOOLEAN,
                        keys \in {<<ProviderA, ProviderB>>, <<ProviderB, ProviderA>>} :
                      CollectOnListNames(ok, keys)
                \/ \E outcome \in {"ok", "error", "cancelled"}, checks \in BOOLEAN :
                      CollectOnProviderCreated(outcome, checks)
                \/ \E ok \in BOOLEAN, checks \in BOOLEAN : CollectOnGetVoices(ok, checks)
            ]_vars

\* The list model is made and then follows the bus, while its providers'
\* proxies are made or fail to be made.
SpecUpdate ==
    Init /\ [][\/ ProvidersListModelNew
               \/ ListModelOnBusGet(TRUE)
               \/ OnProvidersCollected(TRUE)
               \/ \E n \in BusNames, ok \in BOOLEAN :
                     OnInitialProviderCreated(n, ok, TRUE)
               \/ \E n \in BusNames, lost \in BOOLEAN :
                     ListModelNameOwnerChanged(n, lost)
               \/ \E n \in BusNames : ListModelActivatableServicesChanged(n)
               \/ \E id \in 1..MaxBusSignals : GetProviderServicesInThread(id)
               \/ \E id \in 1..MaxBusSignals : OnProvidersUpdated(id)
               \/ \E n \in BusNames, ok \in BOOLEAN :
                     ListModelOnProviderCreated(n, ok)]_vars

\* The list model follows the bus while its providers change their voices;
\* every proxy is made.
SpecAggregate ==
    Init /\ [][\/ ProvidersListModelNew
               \/ ListModelOnBusGet(TRUE)
               \/ OnProvidersCollected(TRUE)
               \/ \E n \in BusNames : OnInitialProviderCreated(n, TRUE, TRUE)
               \/ \E n \in BusNames, lost \in BOOLEAN :
                     ListModelNameOwnerChanged(n, lost)
               \/ \E n \in BusNames : ListModelActivatableServicesChanged(n)
               \/ \E id \in 1..MaxBusSignals : GetProviderServicesInThread(id)
               \/ \E id \in 1..MaxBusSignals : OnProvidersUpdated(id)
               \/ \E n \in BusNames : ListModelOnProviderCreated(n, TRUE)
               \/ \E n \in BusNames, i \in 1..2 :
                     ProviderVoicesChanged(n, ProviderVoiceLists(n)[i])]_vars

\* Two voices are made and compared.
SpecVoice ==
    Init /\ [][\E voice1, voice2 \in VoiceObjects : VoiceUtils(voice1, voice2)]_vars

\* One utterance's voice is resolved under some settings.
SpecResolve ==
    Init /\ [][\E settings \in SettingsValues,
                  provs \in {{ProviderA, ProviderB}, {ProviderB}, {}},
                  utterance_voice \in {NoVoice, "b-bad"},
                  language \in {NoLanguage} \cup Languages :
                   GetVoiceForUtterance(settings, provs, utterance_voice,
                                        language)]_vars

\* A provider is made and its proxy's voices and owner change.
SpecVoices ==
    Init /\ [][\/ \E is_activatable, name_owner \in BOOLEAN,
                     new_voices \in AdvertisedLists :
                      ProviderNew(is_activatable, name_owner, new_voices)
               \/ \E name_owner \in BOOLEAN, new_voices \in AdvertisedLists :
                      ProxyNotifyVoices(name_owner, new_voices)
               \/ \E is_activatable \in BOOLEAN :
                      ProviderSetIsActivatable(is_activatable)]_vars

\* The speaker under a main loop that dispatches the bus messages and a
\* pipeline that completes its state changes: weak fairness of the two,
\* WF_vars(GstStateChanged) and WF_vars(HandleGstStateChange), written with
\* the conditions under which each is enabled.
SpecPause ==
    /\ Init /\ [][
                \/ \E u \in Utterances : Speak(u, MaxSpeak)
                \/ Pause
                \/ Resume
                \/ Cancel
                \/ HandleGstStateChange
                \/ HandleGstEos
                \/ \E call \in calls, err \in BOOLEAN : ProviderCallSynthesizeDone(call, err)
                \/ GstStateChanged
                \/ GstEos
            ]_vars
    /\ \/ []<>~(/\ Running /\ pipeline.target # pipeline.state
                 /\ pipeline.state # "READY" /\ pipeline.bin # {})
       \/ []<><<GstStateChanged>>_vars
    /\ \/ []<>~(Running /\ bus # <<>> /\ Head(bus).type = "state-changed")
       \/ []<><<HandleGstStateChange>>_vars

\* --------------------------------------------------------------- properties
\* The signals that end an entry, and the signals of its in-band events.
Terminal == {"utterance-finished", "utterance-canceled", "utterance-error"}
Events == {"word-started", "sentence-started", "range-started", "mark-reached"}
Lifecycle == Terminal \cup Events \cup {"utterance-started"}

Entries == 1..n_entries
InQueue(e) == \E i \in 1..Len(queue) : queue[i].id = e

\* The positions in the log of the signals of those kinds emitted for entry e.
Emitted(e, kinds) ==
    {i \in 1..Len(signals) : signals[i].entry = e /\ signals[i].signal \in kinds}

\* No utterance was handed to speak() twice.
SpokenOnce == \A a, b \in Entries : a # b => spoken[a] # spoken[b]

\* The entry's voice has an output format speak() makes no source element for.
Misconfigured(e) ==
    stream_type(spiel_voice_get_output_format(utt_voice[spoken[e]]))
        \notin {"audio/x-raw", "audio/x-spiel"}

C2_StartedBeforeFinishedOrCanceled ==
    \A i \in 1..Len(signals) :
        signals[i].signal \in {"utterance-finished", "utterance-canceled"} =>
            \E j \in 1..(i - 1) : /\ signals[j].signal = "utterance-started"
                                  /\ signals[j].entry = signals[i].entry

\* The messages of a list that are announced by a signal, in their order.
Announced(msgs) ==
    SelectSeq(msgs, LAMBDA m : m.event_type # SPEECH_PROVIDER_EVENT_TYPE_NONE)

\* Each event signal comes after utterance-started of its entry, before the
\* entry's terminal signal and after the signals of the events posted earlier;
\* only an entry that has not started holds messages back, in the order they
\* were posted and all posted before the messages still on the bus.
EventsInOrder ==
    /\ \A i \in 1..Len(signals) :
          signals[i].signal \in Events =>
              /\ \E j \in 1..(i - 1) : /\ signals[j].signal = "utterance-started"
                                       /\ signals[j].entry = signals[i].entry
              /\ \A j \in 1..(i - 1) :
                    /\ ~(/\ signals[j].entry = signals[i].entry
                         /\ signals[j].signal \in Terminal)
                    /\ signals[j].signal \in Events =>
                           signals[j].event < signals[i].event
    /\ \A k \in 1..Len(queue) :
          LET held == queue[k].deferred_messages
          IN /\ queue[k].started => held = <<>>
             /\ \A a, b \in 1..Len(held) : a < b => held[a].event < held[b].event
             /\ \A a \in 1..Len(held), m \in 1..Len(bus) :
                    bus[m].type = "element" => held[a].event < bus[m].event

\* C3: every event signal of an entry lies between its utterance-started and
\* its terminal signal; the events that arrived before the entry started are
\* held back and emitted in arrival order in the step that emits
\* utterance-started, right after it and before any later event.
C3_EventsAfterStart ==
    [][/\ EventsInOrder'
       /\ (/\ queue # <<>> /\ queue' # <<>>
           /\ Head(queue').id = Head(queue).id
           /\ ~Head(queue).started /\ Head(queue').started) =>
              LET new == SubSeq(signals', Len(signals) + 1, Len(signals'))
                  held == Announced(Head(queue).deferred_messages)
              IN /\ Len(new) = 1 + Len(held)
                 /\ new[1].signal = "utterance-started"
                 /\ new[1].entry = Head(queue).id
                 /\ \A i \in 1..Len(held) :
                       /\ new[i + 1].signal \in Events
                       /\ new[i + 1].entry = Head(queue).id
                       /\ new[i + 1].event = held[i].event]_vars

\* utterance-started of an entry is followed at once by the signals of two
\* events, all posted before the pipeline reached PLAYING was handled.
C3_Witness ==
    \E i \in 1..Len(signals) :
        /\ i + 2 <= Len(signals)
        /\ signals[i].signal = "utterance-started"
        /\ signals[i + 1].signal \in Events /\ signals[i + 1].event = 1
        /\ signals[i + 2].signal \in Events /\ signals[i + 2].event = 2
        /\ signals[i + 1].entry = signals[i].entry
        /\ signals[i + 2].entry = signals[i].entry
        /\ queue # <<>> /\ Head(queue).id = signals[i].entry
        /\ pipeline.state = "PLAYING" /\ ~pipeline.eos

\* C4: signals follow queue order: no signal of an entry comes after a signal
\* of a later entry, and when utterance-started of an entry is emitted every
\* earlier entry that was not freed by cancel() has emitted its terminal signal.
C4_SignalsInQueueOrder ==
    /\ \A i, j \in 1..Len(signals) :
          (i < j /\ signals[i].entry > 0 /\ signals[j].entry > 0) =>
              signals[i].entry <= signals[j].entry
    /\ \A j \in 1..Len(signals) :
          signals[j].signal = "utterance-started" =>
              \A a \in 1..(signals[j].entry - 1) :
                  \/ a \in dumped
                  \/ \E i \in 1..(j - 1) : /\ signals[i].entry = a
                                           /\ signals[i].signal \in Terminal

\* The first entry has finished and the entry queued behind it has started.
C4_Witness ==
    \E i, j \in 1..Len(signals) :
        /\ i < j
        /\ signals[i].signal = "utterance-finished" /\ signals[i].entry = 1
        /\ signals[j].signal = "utterance-started" /\ signals[j].entry = 2

\* C5: a cancel() on a non-empty queue has, when it returns, emitted
\* utterance-canceled for the head and the end of speaking, and left the queue
\* empty; the entries it freed from behind the head emit no signal, then or
\* later.
C5_CancelIsSynchronous ==
    [][/\ (Cancel /\ queue # <<>>) =>
              /\ queue' = <<>>
              /\ pipeline'.state = "NULL" /\ pipeline'.bin = {}
              /\ signals' = signals \o
                    <<[signal |-> "utterance-canceled", entry |-> Head(queue).id,
                       utterance |-> Head(queue).utterance, error |-> "none",
                       event |-> 0, mark_name |-> NullString],
                      [signal |-> "notify::speaking", entry |-> 0,
                       utterance |-> "NULL", error |-> "none", event |-> 0,
                       mark_name |-> NullString]>>
              /\ dumped' = dumped \cup {queue[i].id : i \in 2..Len(queue)}
       /\ \A e \in dumped' :
              {i \in 1..Len(signals') : signals'[i].entry = e} = {}]_vars

\* cancel() has just returned: the last signals are utterance-canceled and the
\* end of speaking, the queue is empty and an entry was freed behind the head.
C5_Witness ==
    /\ queue = <<>> /\ dumped # {} /\ Len(signals) >= 2
    /\ signals[Len(signals)].signal = "notify::speaking"
    /\ signals[Len(signals) - 1].signal = "utterance-canceled"
    /\ signals[Len(signals) - 1].entry + 1 \in dumped
    /\ signals[Len(signals) - 1].entry + 2 \in dumped

\* C6: an entry whose synthesize call failed, and no other, ends with
\* utterance-error: at once when it is the head, else when it becomes the
\* head, so it is never left at the head of the queue; stated for runs
\* that hand no utterance to speak() twice.
C6_FailedEntryEndsWithError ==
    SpokenOnce =>
        /\ \A e \in rpc_failed :
              /\ InQueue(e) => Head(queue).id # e
              /\ (~InQueue(e) /\ e \notin dumped) =>
                     Emitted(e, {"utterance-error"}) # {}
        /\ \A e \in Entries \ rpc_failed :
              \A i \in Emitted(e, {"utterance-error"}) :
                  signals[i].error # "G_DBUS_ERROR"

C8_LateErrorIsHarmless ==
    [][\A call \in calls :
          (~InQueue(call.entry) /\ ProviderCallSynthesizeDone(call, TRUE)) =>
              (queue' = queue /\ signals' = signals)]_vars

\* C9: an entry that was the head when the provider of its voice lost its
\* owner, the provider not being activatable, ends with utterance-error of
\* kind PROVIDER_UNEXPECTEDLY_DIED unless the application cancels it.
C9_ProviderDiedIsReported ==
    \A e \in orphaned :
        \A i \in Emitted(e, {"utterance-finished", "utterance-error"}) :
            signals[i].error = "PROVIDER_UNEXPECTEDLY_DIED"

\* C10: a speak() call that finds no voice because the list of voices is empty
\* reports an error of kind NO_PROVIDERS for its utterance.
C10_NoVoiceIsReported ==
    \A u \in unvoiced :
        \E i \in 1..Len(signals) :
            /\ signals[i].utterance = u
            /\ signals[i].signal = "utterance-error"
            /\ signals[i].error = "NO_PROVIDERS"

\* C11: an entry whose provider source refused to start because the stream's
\* first four bytes are not "0.01" ends with utterance-error and leaves the
\* queue to the next entry, once the main loop has dispatched the source's
\* error message, unless the application cancelled it first.
C11_HeaderMismatchEndsWithError ==
    \A e \in start_failed :
        (\A i \in 1..Len(bus) : ~(bus[i].type = "error" /\ bus[i].entry = e)) =>
            /\ ~InQueue(e)
            /\ \/ e \in dumped
               \/ Emitted(e, {"utterance-error", "utterance-canceled"}) # {}

\* The entry is the head of a paused speaker and the pipeline was not asked
\* to leave NULL for it: it waits for resume().
Waiting(e) ==
    /\ queue # <<>> /\ Head(queue).id = e /\ ~Head(queue).started
    /\ paused /\ pipeline.target = "NULL" /\ pipeline.state = "NULL"

\* resume() was called for the entry at the head, which has not started.
Resumed(e) ==
    /\ queue # <<>> /\ Head(queue).id = e /\ ~Head(queue).started
    /\ paused /\ pipeline.target = "PLAYING"

\* C12: pause() on an empty queue sets paused; an utterance spoken then
\* becomes the head without the pipeline being started and stays so, with no
\* utterance-started, through every step but resume() for as long as it is in
\* the queue; resume() asks the pipeline for PLAYING; and from then on the
\* entry starts, unless it leaves the queue first (cancel(), a failed
\* synthesize call) or the process aborts.
C12_PausedSpeakerWaitsForResume ==
    /\ [][/\ (Pause /\ queue = <<>>) => (paused' /\ queue' = <<>>)
          /\ \A u \in Utterances :
                (Speak(u, MaxSpeak) /\ paused /\ queue = <<>> /\ queue' # <<>>) =>
                    /\ paused' /\ ~Head(queue').started
                    /\ pipeline'.target = "NULL" /\ pipeline'.state = "NULL"
          /\ \A e \in Entries :
                /\ (Waiting(e) /\ ~Resume) =>
                       /\ InQueue(e)' => Waiting(e)'
                       /\ Emitted(e, {"utterance-started"})' = {}
                /\ (Waiting(e) /\ Resume) => Resumed(e)'
                /\ (Resumed(e) /\ InQueue(e)' /\ ~Resumed(e)') =>
                       /\ Head(queue').id = e /\ Head(queue').started /\ ~paused'
                       /\ signals' = Append(signals,
                             [signal |-> "utterance-started", entry |-> e,
                              utterance |-> spoken[e], error |-> "none",
                              event |-> 0, mark_name |-> NullString])]_vars
    /\ \A e \in 1..MaxSpeak :
          Resumed(e) ~> (\/ Emitted(e, {"utterance-started"}) # {}
                         \/ ~InQueue(e)
                         \/ aborted)

\* pause() was called before speak(), then resume(): the pipeline has reached
\* PLAYING for the first entry and its utterance-started is about to be
\* emitted.
C12_Witness ==
    /\ Resumed(1) /\ pipeline.state = "PLAYING"
    /\ bus # <<>> /\ bus[Len(bus)].new_state = "PLAYING"
    /\ Len(signals) = 1

\* The positions in the log of the change notifications of "speaking".
SpeakingNotified == {i \in 1..Len(signals) : signals[i].signal = "notify::speaking"}

\* C13: "speaking" reads true exactly when the queue is not empty, and it is
\* notified once for each change of the queue between empty and not empty
\* and never else: one notification in a step that changes it, the first
\* signal of the step when the queue fills and the last when it empties; two
\* in a speak() on an empty queue whose entry ends at once, around the
\* entry's signal; none in any other step.
C13_SpeakingFollowsQueue ==
    [][LET new == SubSeq(signals', Len(signals) + 1, Len(signals'))
           notified == {i \in 1..Len(new) : new[i].signal = "notify::speaking"}
       IN /\ spiel_speaker_get_property(Self, "speaking")' = (queue' # <<>>)
          /\ (Cardinality(SpeakingNotified') % 2 = 1) = (queue' # <<>>)
          /\ (queue = <<>> /\ queue' # <<>>) => notified = {1}
          /\ (queue # <<>> /\ queue' = <<>>) => notified = {Len(new)}
          /\ (queue # <<>> /\ queue' # <<>>) => notified = {}
          /\ (queue = <<>> /\ queue' = <<>>) =>
                 IF n_entries' > n_entries
                 THEN notified = {1, 3} /\ Len(new) = 3
                 ELSE notified = {}]_vars

\* The queue has filled and emptied twice: the first speak() queued an entry
\* that finished, the second one an entry that ended at once.
C13_Witness ==
    /\ queue = <<>> /\ Cardinality(SpeakingNotified) = 4
    /\ Emitted(1, {"utterance-finished"}) # {}
    /\ Emitted(2, {"utterance-error"}) # {}

\* C14: what the reader's calls hand back is what the writer's calls were
\* given, chunk by chunk in the order sent: the same kind, the same audio
\* bytes, and the same event type, range and mark name (a NULL name taken
\* for the empty one).
C14_ReaderObservesWhatWasSent ==
    /\ Len(received) <= Len(sent)
    /\ \A i \in 1..Len(received) :
          LET given == sent[i]
              back == received[i]
          IN /\ back.kind = given.kind
             /\ back.chunk = given.chunk /\ back.chunk_size = given.chunk_size
             /\ back.event_type = given.event_type
             /\ back.range_start = given.range_start
             /\ back.range_end = given.range_end
             /\ (IF back.mark_name = NullString THEN <<>> ELSE back.mark_name)
                = (IF given.mark_name = NullString THEN <<>> ELSE given.mark_name)

\* The bytes a writer call hands to write(), in the order of its write()s.
WireBytes(given) ==
    LET w == [stream_header_sent |-> TRUE, aborted |-> FALSE]
    IN IF given.kind = "audio"
       THEN speech_provider_stream_writer_send_audio(
                w, given.chunk, Len(given.chunk), Whole).out
       ELSE speech_provider_stream_writer_send_event(
                w, given.event_type, guint32_min(given.range_start, 65535),
                guint32_min(given.range_end, 65535), given.mark_name, Whole).out

\* The chunk the stream carries for a writer call: what a reader hands back
\* that finds the bytes of that call alone in its pipe, all written.
OnWire(given) ==
    LET r == [Reader(WireBytes(given), TRUE) EXCEPT !.stream_header_received = TRUE]
    IN Returned(IF given.kind = "audio"
                THEN speech_provider_stream_reader_get_audio(r, 0)
                ELSE speech_provider_stream_reader_get_event(r, 0))

\* C15: a get_audio or get_event call that returns FALSE takes at most the
\* one byte of the next chunk's type from the pipe and keeps it; while a type
\* is kept no call takes a byte unless it is of that kind, and the call of
\* that kind hands the chunk back; so the calls hand back the chunks of the
\* stream in order, each once and whole, however they are mixed.
C15_LookaheadKeepsChunk ==
    /\ [](/\ Len(received) <= Len(sent)
          /\ \A i \in 1..Len(received) : received[i] = OnWire(sent[i]))
    /\ [][(reader.stream_header_received /\ ~reader'.aborted) =>
            /\ (/\ received' = received /\ reader' # reader
                /\ reader.closed = reader'.closed
                /\ Len(reader'.pipe) <= Len(reader.pipe)) =>
                   /\ reader.next_chunk_type = SPEECH_PROVIDER_CHUNK_TYPE_NONE
                   /\ reader'.pipe = Tail(reader.pipe)
                   /\ reader'.next_chunk_type = Head(reader.pipe)
            /\ \A junk \in Junk :
                  /\ (/\ GetAudio(junk)
                      /\ reader.next_chunk_type = SPEECH_PROVIDER_CHUNK_TYPE_AUDIO) =>
                         /\ received' = Append(received, OnWire(sent[Len(received) + 1]))
                         /\ reader'.next_chunk_type = SPEECH_PROVIDER_CHUNK_TYPE_NONE
                  /\ (/\ GetEvent(junk)
                      /\ reader.next_chunk_type = SPEECH_PROVIDER_CHUNK_TYPE_EVENT) =>
                         /\ received' = Append(received, OnWire(sent[Len(received) + 1]))
                         /\ reader'.next_chunk_type = SPEECH_PROVIDER_CHUNK_TYPE_NONE
                  /\ (/\ GetAudio(junk)
                      /\ reader.next_chunk_type = SPEECH_PROVIDER_CHUNK_TYPE_EVENT) =>
                         UNCHANGED <<reader, received>>
                  /\ (/\ GetEvent(junk)
                      /\ reader.next_chunk_type = SPEECH_PROVIDER_CHUNK_TYPE_AUDIO) =>
                         UNCHANGED <<reader, received>>]_vars

\* get_event has returned FALSE on an audio chunk, whose type the reader
\* keeps, after an event was handed back; the audio bytes are in the pipe.
C15_Witness ==
    /\ reader.next_chunk_type = SPEECH_PROVIDER_CHUNK_TYPE_AUDIO
    /\ Len(received) = 1 /\ received[1].kind = "event"
    /\ Len(sent) = 3 /\ sent[2].chunk = <<1, 2>>
    /\ reader.pipe # <<>>

\* The chunks of a list as the stream carries them, in order.
Delivered(items) == [i \in 1..Len(items) |-> OnWire(items[i])]

\* The chunks the source has something to hand on for: the events, and the
\* audio chunks that have a byte.
NonEmpty(items) ==
    SelectSeq(items, LAMBDA c : c.kind = "event" \/ c.chunk # <<>>)

\* The source has returned end-of-stream with the stream read to its end.
AtEndOfStream ==
    provider_src.flow = "GST_FLOW_EOS" =>
        /\ reader.closed /\ reader.pipe = <<>>
        /\ reader.next_chunk_type = SPEECH_PROVIDER_CHUNK_TYPE_NONE

\* C16, as stated: when the source returns end-of-stream the write end is
\* closed, no byte of the stream is unread, and every event sent was posted
\* and every audio chunk sent was returned, in the order sent.
C16_EveryChunkThenEos ==
    /\ AtEndOfStream
    /\ provider_src.flow = "GST_FLOW_EOS" => received = Delivered(sent)

\* C16, amended: of a stream with a valid header the source posts the events
\* and returns the audio chunks that have at least one byte, in the order
\* sent; an audio chunk of no byte is read and dropped.  It returns
\* end-of-stream only when the write end is closed and the stream is read to
\* its end, all of them handed on; and once the write end is closed it does
\* return end-of-stream.
C16_NonEmptyChunksThenEos ==
    /\ [](/\ AtEndOfStream
          /\ Len(received) <= Len(NonEmpty(sent))
          /\ received = SubSeq(Delivered(NonEmpty(sent)), 1, Len(received))
          /\ provider_src.flow = "GST_FLOW_EOS" =>
                 received = Delivered(NonEmpty(sent)))
    /\ (reader.closed /\ provider_src.started)
           ~> (provider_src.flow = "GST_FLOW_EOS")

\* A stream of two events and no audio was read to its end: both were
\* posted and the source returned end-of-stream.
C16_Witness ==
    /\ provider_src.flow = "GST_FLOW_EOS"
    /\ Len(sent) = 2 /\ \A i \in 1..2 : sent[i].kind = "event"
    /\ Len(received) = 2

\* The bytes the writer's calls so far handed to write(): the header and the
\* chunks, in the order of the calls.
RECURSIVE ChunkBytes(_)
ChunkBytes(items) ==
    IF items = <<>> THEN <<>>
    ELSE WireBytes(Head(items)) \o ChunkBytes(Tail(items))
Requested ==
    (IF writer.stream_header_sent
     THEN SPEECH_PROVIDER_STREAM_PROTOCOL_VERSION ELSE <<>>) \o ChunkBytes(sent)


\* C17: of a stream that ends before its last chunk is complete (after the
\* tag or the length, before the whole event record or payload) the reader
\* hands back the complete chunks only: the call that meets the incomplete
\* chunk returns FALSE, so no chunk handed back had bytes missing.
C17_IncompleteChunkIsEndOfStream ==
    (/\ reader.closed
     /\ Len(written) <= Len(Requested)
     /\ written = SubSeq(Requested, 1, Len(written))) =>
        \A i \in 1..Len(received) :
            received[i].whole /\ received[i] = OnWire(sent[i])

\* C18: a write() that accepts fewer bytes than it was asked to is followed
\* by the writing of the rest, so after every call of the writer the stream
\* holds every byte the calls handed to write(), in order.
C18_PartialWritesAreCompleted == written = Requested

\* C19: spiel_registry_get calls made before the first of them completes
\* all complete with the same SpielRegistry: no assertion fails, no call
\* ends with NULL unless the bus could not be had, there is at most one
\* SpielRegistry at a time, and the callers that hold one hold the same.
C19_ConcurrentGetsShareOneRegistry ==
    /\ ~init_aborted
    /\ Cardinality({o \in 1..Len(registries) :
                        registries[o].phase # "finalized"}) <= 1
    /\ \A i, j \in 1..Len(gets) :
          (gets[i].held /\ gets[j].held) => gets[i].result = gets[j].result

\* C20: when the proxy or the voices of some providers cannot be had, the
\* construction still completes with success and with the other providers:
\* the list model's task never returns an error for a provider, and when it
\* returns success the list holds every service but those that failed; the
\* collection's task returns an error only for the bus daemon's lists or a
\* cancellation, it is never left with nothing in flight and no result, and
\* its result holds the voices of every service but those that failed; and
\* neither dies on the way.
C20_ProviderFailureIsNotFatal ==
    /\ ~list_model.aborted /\ ~collect.aborted
    /\ list_model.task # "error: provider"
    /\ list_model.task = "ok" =>
           {list_model.providers_list[i].name :
                i \in 1..Len(list_model.providers_list)}
           = ProviderServices \ list_model.failed
    /\ ~(collect.phase = "idle" /\ collect.task = "pending")
    /\ collect.task = "ok" =>
           (collect.providers \ collect.failed) \subseteq collect.with_voices

\* C28: two voices that spiel_voice_equal takes for equal have the same
\* spiel_voice_hash.
C28_EqualVoicesHashAlike ==
    \A c \in {compared[i] : i \in 1..Len(compared)} :
        c.equal => c.hash1 = c.hash2

\* Two voices that differ in their output format were found equal, and two
\* hashes were computed for them.
C28_Witness ==
    /\ compared # <<>>
    /\ compared[1].equal /\ compared[1].voice1 # compared[1].voice2
    /\ compared[1].voice1.provider # NoProvider
    /\ compared[1].voice1.languages # <<>>
    /\ compared[1].hash1 = compared[1].hash2

\* C29: spiel_voice_compare returns 0 for two voices exactly when
\* spiel_voice_equal returns TRUE for them.
C29_CompareAgreesWithEqual ==
    \A c \in {compared[i] : i \in 1..Len(compared)} :
        (c.compare = 0) <=> c.equal

\* The voice a (provider, voice) pair of the settings names, NoVoice when the
\* pair is nothing or names no voice of the registry.
Named(r, pair) ==
    IF pair # <<>> /\ pair[1] \in r.providers
       /\ \E i \in 1..Len(r.voices) :
              /\ r.voices[i] = pair[2]
              /\ spiel_voice_get_provider_name(r.voices[i]) = pair[1]
    THEN pair[2] ELSE NoVoice

\* The language tag and what is left of it as its last segments are dropped
\* with the '-' before them, longest first.
RECURSIVE Reductions(_)
Reductions(tag) ==
    LET separators == {i \in 1..Len(tag) : tag[i] = "-"}
        last == CHOOSE i \in separators : \A j \in separators : j <= i
    IN IF tag = <<>> THEN <<>>
       ELSE IF separators = {} THEN <<tag>>
       ELSE <<tag>> \o Reductions(SubSeq(tag, 1, last - 1))

\* The results of the five rules in their order, NoVoice for a rule that
\* does not apply: the utterance's voice, the voice mapped to the longest
\* reduction of the language that is mapped, the default voice, the first
\* voice that has the language, the first voice.
Rules(r) ==
    LET mapping == IF r.settings.installed
                   THEN r.settings.language_voice_mapping
                   ELSE [tag \in {} |-> <<>>]
        tags == SelectSeq(Reductions(r.language), LAMBDA tag : tag \in DOMAIN mapping)
        speaking == SelectSeq(r.voices,
                        LAMBDA v : r.language \in spiel_voice_get_languages(v))
    IN <<r.utterance_voice,
         IF tags # <<>> THEN Named(r, mapping[Head(tags)]) ELSE NoVoice,
         IF r.settings.installed THEN Named(r, r.settings.default_voice) ELSE NoVoice,
         IF r.language # NoLanguage /\ speaking # <<>> THEN Head(speaking) ELSE NoVoice,
         IF r.voices # <<>> THEN Head(r.voices) ELSE NoVoice>>

\* C30: the voice resolved for an utterance is the result of the first of
\* the five rules that applies, in the order utterance voice, language
\* mapping, default voice, first voice with the language, first voice; a
\* pair of the settings that names no voice is a rule that does not apply.
C30_FirstRuleThatApplies ==
    \A r \in {resolved[i] : i \in 1..Len(resolved)} :
        LET results == SelectSeq(Rules(r), LAMBDA v : v # NoVoice)
        IN r.voice = IF results # <<>> THEN Head(results) ELSE NoVoice

\* C31: for an utterance with a language tag and no voice of its own, the
\* language mapping used is the entry of the longest of the tag's reductions
\* (the tag with zero or more of its last '-'-separated segments dropped)
\* that has an entry, and none is used when no reduction has one.
C31_LongestMappedPrefix ==
    \A r \in {resolved[i] : i \in 1..Len(resolved)} :
        (r.utterance_voice = NoVoice /\ r.language # NoLanguage /\ r.settings.installed) =>
            LET mapping == r.settings.language_voice_mapping
                tags == SelectSeq(Reductions(r.language),
                                  LAMBDA tag : tag \in DOMAIN mapping)
            IN r.mapped = IF tags # <<>> THEN mapping[Head(tags)] ELSE <<>>

\* the tag "hy-am-x-y" has no entry, "hy-am-x" and "hy" have, and the entry
\* of "hy-am-x" is the one used
C31_Witness ==
    \E i \in 1..Len(resolved) :
        /\ resolved[i].utterance_voice = NoVoice
        /\ resolved[i].settings.installed
        /\ resolved[i].language = <<"h", "y", "-", "a", "m", "-", "x", "-", "y">>
        /\ <<"h", "y">> \in DOMAIN resolved[i].settings.language_voice_mapping
        /\ resolved[i].mapped = <<ProviderB, "b-bad">>

\* C32: when the pair given by the language mapping names no voice of the
\* current providers, the voice resolved is the configured default voice,
\* and when that pair names no voice either, it is the first voice that has
\* the language, or the first voice.
C32_MissingMappedVoiceFallsThrough ==
    \A r \in {resolved[i] : i \in 1..Len(resolved)} :
        (/\ r.utterance_voice = NoVoice
         /\ r.mapped # <<>>
         /\ Named(r, r.mapped) = NoVoice) =>
            LET default == Named(r, r.settings.default_voice)
                fallback == SelectSeq(SubSeq(Rules(r), 4, 5), LAMBDA v : v # NoVoice)
            IN r.voice = IF default # NoVoice THEN default
                         ELSE IF fallback # <<>> THEN Head(fallback)
                         ELSE NoVoice

\* C33: a mark-reached signal carries the name of the MARK event of the
\* utterance's stream that it is emitted for ("m" for every mark sent).
C33_MarkReachedCarriesName ==
    \A i \in 1..Len(signals) :
        signals[i].signal = "mark-reached" => signals[i].mark_name = <<109>>

\* C34: from a pause() called while utterances are queued until the next
\* resume(), no step emits utterance-started, whatever is dispatched, posted
\* or called in between.
C34_NoStartWhilePausing ==
    [][pausing =>
          {i \in 1..Len(signals') : signals'[i].signal = "utterance-started"}
              = {i \in 1..Len(signals) : signals[i].signal = "utterance-started"}]_vars

\* C35: the pipeline holds the source elements of at most one queue entry,
\* which is the head of the queue, and it is in the NULL state whenever the
\* queue is empty.
C35_PipelineHoldsTheHeadOnly ==
    /\ Cardinality(pipeline.bin) <= 1
    /\ \A e \in pipeline.bin : queue # <<>> /\ Head(queue).id = e
    /\ queue = <<>> => pipeline.state = "NULL" /\ pipeline.target = "NULL"

\* the first entry has finished and left the pipeline, the second has taken
\* its place and is playing
C35_Witness ==
    /\ queue # <<>> /\ Head(queue).id = 2 /\ pipeline.bin = {2}
    /\ pipeline.state = "PLAYING"
    /\ Emitted(1, {"utterance-finished"}) # {}

\* C36: the read end of the pipe a speak call has made is closed once the
\* call's queue entry is destroyed, however the entry ended.
C36_ReadEndClosedWithEntry ==
    \A e \in Entries : ~InQueue(e) => e \notin mypipe

\* C37: the error of a synthesize call is recorded on the entry of the speak
\* call that made the call and on no other: an entry that holds the error of
\* a call, or was reported with it, is one whose own call failed.
C37_ErrorOnItsOwnEntry ==
    /\ \A i \in 1..Len(queue) :
          queue[i].error = "G_DBUS_ERROR" => queue[i].id \in rpc_failed
    /\ \A i \in 1..Len(signals) :
          signals[i].error = "G_DBUS_ERROR" => signals[i].entry \in rpc_failed

\* C39: no g_assert of the speaker fails: an entry that becomes the head
\* with an error recorded has no source element, and a synthesize completion
\* finds no error recorded on the entry it looks up.  A failed g_assert ends
\* the process, so an entry with an error and a source element is never the
\* head of a queue that is still served.
C39_AssertionsHold ==
    /\ ~aborted
    /\ queue # <<>> => ~(Head(queue).error # "none" /\ Head(queue).src)

\* C38: the initialization of the providers list delivers its completion:
\* once the list model has no construction and no update in flight, the task
\* of its initialization has returned, with TRUE or with an error.
C38_InitCompletes ==
    (/\ list_model.phase = "providers" /\ ~list_model.aborted
     /\ list_model.tasks = {} /\ list_model.creating = {})
    => list_model.task # "pending"

\* C40: when the handler of a terminal signal has called cancel() or
\* speak() on the speaker during the emission, no entry has more than one
\* terminal signal and no queue entry was read after it was destroyed.
C40_ReentrantCallsAreSafe ==
    handler.called =>
        /\ \A e \in Entries : Cardinality(Emitted(e, Terminal)) <= 1
        /\ ~handler.freed_entry_accessed

\* C24: when a provider whose name has an owner has processed a change of
\* its voices, its list holds every advertised voice exactly once (voices
\* that are equal count as one), holds no voice that is not advertised, and
\* is sorted by the ordering of voices.
C24_VoicesAreTheAdvertised ==
    \A p \in {spiel_provider[i] : i \in 1..Len(spiel_provider)} :
        p.provider_proxy.name_owner =>
            LET advertised == p.provider_proxy.voices
            IN /\ \A i \in 1..Len(advertised) :
                      Cardinality({j \in 1..Len(p.voices) :
                          spiel_voice_equal(p.voices[j], advertised[i])}) = 1
               /\ \A j \in 1..Len(p.voices) :
                      \E i \in 1..Len(advertised) :
                          spiel_voice_equal(p.voices[j], advertised[i])
               /\ \A j, k \in 1..Len(p.voices) :
                      j < k => spiel_voice_compare(p.voices[j], p.voices[k]) <= 0

\* two equal voices are advertised, the list has one of them, and the change
\* took an old voice out of the list
C24_Witness ==
    /\ spiel_provider # <<>>
    /\ spiel_provider[1].provider_proxy.name_owner
    /\ Len(spiel_provider[1].provider_proxy.voices) = 2
    /\ spiel_provider[1].provider_proxy.voices[1] # spiel_provider[1].provider_proxy.voices[2]
    /\ Len(spiel_provider[1].voices) = 1
    /\ \E i \in 1..Len(spiel_provider[1].items_changed) :
           spiel_provider[1].items_changed[i].removed = 1

\* C25: when the name of an activatable provider loses its owner, the
\* change of voices that this brings leaves the provider's list of voices
\* as it was, and no change of the list is reported.
C25_ActivatableKeepsVoices ==
    [][(/\ spiel_provider # <<>>
        /\ spiel_provider[1].provider_proxy.name_owner
        /\ spiel_provider[1].is_activatable
        /\ ~spiel_provider'[1].provider_proxy.name_owner)
       => /\ spiel_provider'[1].voices = spiel_provider[1].voices
          /\ spiel_provider'[1].items_changed = <<>>]_vars

\* an activatable provider without owner still lists voices
C25_Witness ==
    /\ spiel_provider # <<>>
    /\ ~spiel_provider[1].provider_proxy.name_owner
    /\ spiel_provider[1].is_activatable
    /\ spiel_provider[1].provider_proxy.voices = <<>>
    /\ spiel_provider[1].voices # <<>>

\* The names of the providers in a list model's list.
ProviderNames(lm) ==
    {lm.providers_list[i].name : i \in 1..Len(lm.providers_list)}

\* C21: when the enumeration that a NameOwnerChanged for a lost owner
\* started is answered, the provider of that name is not in the list if the
\* name was found neither running nor activatable, and a provider that was
\* in the list is still in it if the name was found activatable.
C21_LostOwnerRemovesUnlessActivatable ==
    [][\A task \in list_model.tasks :
          (task.providers # <<>> /\ task \notin list_model'.tasks /\ task.lost # "")
          => /\ task.lost \notin DOMAIN task.providers[1]
                => task.lost \notin ProviderNames(list_model')
             /\ (/\ task.lost \in DOMAIN task.providers[1]
                 /\ task.providers[1][task.lost]
                 /\ task.lost \in ProviderNames(list_model))
                => task.lost \in ProviderNames(list_model')]_vars

\* a provider was just removed whose name has no owner and is not
\* activatable, while an activatable one without owner is in the list
C21_Witness ==
    /\ \E i \in 1..Len(list_model.items_changed) :
          list_model.items_changed[i].removed = 1
    /\ ProviderA \notin owners \cup activatable
    /\ ProviderA \notin ProviderNames(list_model)
    /\ ProviderB \in activatable \ owners
    /\ ProviderB \in ProviderNames(list_model)

\* C22: a name that got an owner while it had no provider in the list, and
\* has kept it, has a provider in the list once no enumeration and no
\* construction is pending, also when a construction for the name (and for
\* no other name) had failed before.
C22_GainedOwnerIsInserted ==
    (/\ list_model.tasks = {} /\ list_model.creating = {}
     /\ Cardinality(list_model.failed) <= 1)
    => list_model.gained = {}

\* C23: once no enumeration and no construction is pending (and none has
\* failed), the list has one provider for each name with the suffix that is
\* running or activatable, and no other provider.
C23_QuiescentListIsTheBus ==
    (/\ list_model.phase = "providers" /\ ~list_model.aborted
     /\ list_model.tasks = {} /\ list_model.creating = {}
     /\ list_model.failed = {})
    => /\ ProviderNames(list_model) = ProviderServices
       /\ Cardinality(ProviderNames(list_model)) = Len(list_model.providers_list)

\* The flattened list: the items of the voices list model, first to last.
Flattened(providers_list) ==
    [i \in 1..spiel_voices_list_model_get_n_items(providers_list) |->
        spiel_voices_list_model_get_item(providers_list, i - 1)]

\* C26: in the flattened list the voices of a provider whose identifier
\* sorts first come first, and the voices of each provider of the list are
\* together and in the order of the provider's own list; in every state,
\* so after every insertion and removal of a provider.
C26_FlattenedByProvider ==
    LET flat == Flattened(list_model.providers_list)
    IN /\ \A i, j \in 1..Len(flat) :
             i < j => g_strcmp0(spiel_provider_get_well_known_name(flat[i].provider),
                                spiel_provider_get_well_known_name(flat[j].provider)) <= 0
       /\ \A i, j, k \in 1..Len(flat) :
             (i < k /\ k < j /\ flat[i].provider = flat[j].provider)
             => flat[k].provider = flat[i].provider
       /\ \A c \in 1..Len(list_model.providers_list) :
             SelectSeq(flat, LAMBDA v : v.provider = list_model.providers_list[c].name)
             = list_model.providers_list[c].voices

\* a provider was just inserted before another one, and both have voices
C26_Witness ==
    /\ Len(list_model.providers_list) = 2
    /\ \A c \in 1..2 : list_model.providers_list[c].voices # <<>>
    /\ list_model.items_changed # <<>>
    /\ list_model.items_changed[1].added = 1
    /\ list_model.items_changed[1].position = 0
    /\ list_model.items_changed[1].before # <<>>

\* A copy of a list after the notifications were applied to it one by one,
\* the added items read from the model as each is emitted; a notification
\* for positions that are not there leaves a list of no voices.
RECURSIVE Replay(_, _)
Replay(copy, items_changed) ==
    IF items_changed = <<>> THEN copy
    ELSE LET e == Head(items_changed)
             flat == Flattened(e.providers_list)
         IN IF e.position + e.removed > Len(copy) \/ e.position + e.added > Len(flat)
            THEN <<[position |-> e.position]>>
            ELSE Replay(SubSeq(copy, 1, e.position)
                        \o SubSeq(flat, e.position + 1, e.position + e.added)
                        \o SubSeq(copy, e.position + e.removed + 1, Len(copy)),
                        Tail(items_changed))

\* C27: the items-changed that the voices list model emits in a step, for
\* changes of a provider's voices or of the providers, make the flattened
\* list of before the step into the flattened list of after it when they
\* are replayed on a copy.
C27_NotificationsReplay ==
    [][(\/ list_model'.providers_list # list_model.providers_list
        \/ voices_list_model' # voices_list_model)
       => Replay(Flattened(list_model.providers_list),
                 voices_list_model'.items_changed)
          = Flattened(list_model'.providers_list)]_vars
====
